---- MODULE Spec2Model ----
(***************************************************************************)
(* Bill / payment reconciliation of the Agro Trade portal (myApp/models.py)*)
(* Amounts are whole currency units.  The database rows are the state; a   *)
(* model instance loaded by an operation is a local value of that          *)
(* operation.  Every action is one complete ORM operation, signal handlers *)
(* included.                                                               *)
(***************************************************************************)
EXTENDS Integers, Sequences, FiniteSets

\* ---------------------------------------------------------------- bounds
NumCustomers == 2
MaxBills == 2
MaxPayments == 2
MaxAmt == 2
\* Largest payment amount: above the remainder two open bills can add up to.
MaxPayAmt == 3
\* The ledger specification (every operation, every sign) draws its amounts
\* from a narrower range.
MaxLedgerAmt == 1
\* Payment rows kept at a time by the specifications that also delete them.
MaxLivePayments == 1
\* Line items submitted with one bill.
MaxLines == 2

\* Requests handled at the same time.
NumProcs == 2
\* Product.current_stock before the first bill.
InitialStock == 2

\* Instants at which bills are entered.
MaxDate == 3

Customers == 1..NumCustomers
Procs == 1..NumProcs
BillIds == 1..MaxBills
PayIds == 1..MaxPayments
Dates == 1..MaxBills
\* DecimalField has no sign validator: totals, paid amounts and payment
\* amounts may be negative or zero.
AmountVals == (0 - 1)..MaxAmt
LedgerVals == (0 - 1)..MaxLedgerAmt
NonNegVals == 0..MaxAmt
PositiveVals == 1..MaxPayAmt

\* bills, payments: the Bill and Payment tables (number: the bill_number
\* column, items: the BillItem rows of each bill); balance, phone: the
\* outstanding_balance and phone columns of Customer (phone 0: no such row);
\* stock: Product.current_stock; procs: the requests in flight.
VARIABLES bills, payments, balance, last, phone, number, items, stock, procs

vars == <<bills, payments, balance, last, phone, number, items, stock, procs>>

\* What the model operations on bills and payments leave alone.
site == <<phone, number, items, stock, procs>>

\* ------------------------------------------------------------------ rows
NoBill == [exists |-> FALSE, customer |-> 0, date |-> 0, total |-> 0,
           paid |-> 0, remaining |-> 0, status |-> "none"]

NoPayment == [exists |-> FALSE, customer |-> 0, bill |-> 0, amount |-> 0]

NoBills == [b \in BillIds |-> NoBill]

Min(a, b) == IF a <= b THEN a ELSE b

Max(a, b) == IF a >= b THEN a ELSE b

\* ------------------------------------------------ Customer.update_balance
RECURSIVE SumRemainingOver(_, _)
SumRemainingOver(bl, S) ==
    IF S = {} THEN 0
    ELSE LET b == CHOOSE x \in S : TRUE
         IN bl[b].remaining + SumRemainingOver(bl, S \ {b})

BillsOf(bl, c) == {b \in BillIds : bl[b].exists /\ bl[b].customer = c}

\* Sum('remaining_amount') over ALL bills of the customer, or 0 when none.
total_outstanding(bl, c) == SumRemainingOver(bl, BillsOf(bl, c))

\* mem is outstanding_balance of the Customer instance the method is called
\* on; the row is written only when the instance's value differs.
update_balance(bal, bl, c, mem) ==
    IF mem # total_outstanding(bl, c)
    THEN [bal EXCEPT ![c] = total_outstanding(bl, c)]
    ELSE bal

\* -------------------------------------------------------------- Bill.save
\* Variant: the paid test taken before the pending test.
derive_status_paid_first(total, paid) ==
    IF paid >= total THEN "paid"
    ELSE IF paid = 0 THEN "pending"
    ELSE "partial"

derive_status(total, paid) ==
    IF paid = 0 THEN "pending"
    ELSE IF paid >= total THEN "paid"
    ELSE "partial"

\* Variant: the remainder of a paid bill not reset to zero.
derive_remaining_unclamped(total, paid) == total - paid

derive_remaining(total, paid) ==
    IF paid = 0 THEN total - paid
    ELSE IF paid >= total THEN 0
    ELSE total - paid

\* Variant: the customer's balance recomputed before the row is written.
Bill_save_balance_first(db, b, rec, mem) ==
    LET saved == [rec EXCEPT !.remaining = derive_remaining(rec.total, rec.paid),
                             !.status = derive_status(rec.total, rec.paid)]
        bal1 == update_balance(db.balance, db.bills, saved.customer, mem)
    IN [bills |-> [db.bills EXCEPT ![b] = saved], balance |-> bal1]

\* db is [bills, balance]; rec is the Bill instance being saved, mem the
\* cached outstanding_balance of rec's Customer instance.  The post_save
\* signal calls update_balance again on the same instance, which then finds
\* nothing to write.
Bill_save(db, b, rec, mem) ==
    LET saved == [rec EXCEPT !.remaining = derive_remaining(rec.total, rec.paid),
                             !.status = derive_status(rec.total, rec.paid)]
        bl == [db.bills EXCEPT ![b] = saved]
        bal1 == update_balance(db.balance, bl, saved.customer, mem)
        bal2 == update_balance(bal1, bl, saved.customer, total_outstanding(bl, saved.customer))
    IN [bills |-> bl, balance |-> bal2]

\* ----------------------------------------------------------- Payment.save
\* The linked branch: the bill row is re-read under select_for_update, the
\* amount is added, the result is capped at total_amount, and the row goes
\* through Bill.save (which derives remaining_amount and payment_status
\* again and refreshes the balance of the bill's own customer).
\* Variant: the amount assigned to paid_amount instead of added to it.
apply_to_bill_assign(db, b, amount) ==
    LET row == db.bills[b]
        capped == IF amount > row.total THEN row.total ELSE amount
    IN Bill_save(db, b, [row EXCEPT !.paid = capped], db.balance[row.customer])

\* Variant: paid_amount not capped at total_amount.
apply_to_bill_uncapped(db, b, amount) ==
    LET row == db.bills[b]
    IN Bill_save(db, b, [row EXCEPT !.paid = row.paid + amount], db.balance[row.customer])

apply_to_bill(db, b, amount) ==
    LET row == db.bills[b]
        added == row.paid + amount
        capped == IF added > row.total THEN row.total ELSE added
    IN Bill_save(db, b, [row EXCEPT !.paid = capped], db.balance[row.customer])

\* ------------------------------------ Payment.update_customer_pending_bills
OpenBills(bl, c) ==
    {b \in BillsOf(bl, c) : bl[b].status \in {"pending", "partial"}}

\* Variant: the queryset ordered by id instead of date.
RECURSIVE order_by_id(_, _)
order_by_id(bl, S) ==
    IF S = {} THEN <<>>
    ELSE LET b == CHOOSE x \in S : \A y \in S : x <= y
         IN <<b>> \o order_by_id(bl, S \ {b})

\* order_by('date'): the ids of S, oldest bill first.
RECURSIVE order_by_date(_, _)
order_by_date(bl, S) ==
    IF S = {} THEN <<>>
    ELSE LET b == CHOOSE x \in S : \A y \in S : bl[x].date <= bl[y].date
         IN <<b>> \o order_by_date(bl, S \ {b})

\* Variant: each bill handed all that is left, not min(left, remaining).
RECURSIVE distribute_all_left(_, _, _, _)
distribute_all_left(db, rows, queue, left) ==
    IF queue = <<>> \/ left <= 0 THEN db
    ELSE LET b == Head(queue)
             row == rows[b]
         IN distribute_all_left(Bill_save(db, b, [row EXCEPT !.paid = row.paid + left],
                                          db.balance[row.customer]),
                                rows, Tail(queue), 0)

\* The loop over the queryset: rows is the snapshot the queryset returned,
\* left the amount not yet handed out.
RECURSIVE distribute(_, _, _, _)
distribute(db, rows, queue, left) ==
    IF queue = <<>> \/ left <= 0 THEN db
    ELSE LET b == Head(queue)
             row == rows[b]
             amount_to_pay == Min(left, row.remaining)
         IN IF amount_to_pay > 0
            THEN distribute(Bill_save(db, b, [row EXCEPT !.paid = row.paid + amount_to_pay],
                                      db.balance[row.customer]),
                            rows, Tail(queue), left - amount_to_pay)
            ELSE distribute(db, rows, Tail(queue), left)

update_customer_pending_bills(db, c, amount) ==
    distribute(db, db.bills, order_by_date(db.bills, OpenBills(db.bills, c)), amount)

\* Variant: what a linked payment has above the bill's remainder goes to
\* the customer's other open bills.
Payment_save_spilling(db, pay, mem0) ==
    LET c == pay.customer
        bal1 == update_balance(db.balance, db.bills, c, mem0)
        mem1 == total_outstanding(db.bills, c)
        db1 == [db EXCEPT !.balance = bal1]
        excess == IF pay.bill # 0 /\ db1.bills[pay.bill].exists
                  THEN pay.amount - db1.bills[pay.bill].remaining
                  ELSE 0
        db2 == IF pay.bill # 0
               THEN IF db1.bills[pay.bill].exists
                    THEN update_customer_pending_bills(
                             apply_to_bill(db1, pay.bill, pay.amount), c, excess)
                    ELSE db1
               ELSE update_customer_pending_bills(db1, c, pay.amount)
    IN [db2 EXCEPT !.balance = update_balance(db2.balance, db2.bills, c, mem1)]

\* pay is the Payment instance; its row is already inserted.  mem0 is the
\* outstanding_balance its Customer instance was loaded with.  The post_save
\* signal of the insert runs update_balance before the bills are touched.
Payment_save(db, pay, mem0) ==
    LET c == pay.customer
        bal1 == update_balance(db.balance, db.bills, c, mem0)
        mem1 == total_outstanding(db.bills, c)
        db1 == [db EXCEPT !.balance = bal1]
        db2 == IF pay.bill # 0
               THEN IF db1.bills[pay.bill].exists
                    THEN apply_to_bill(db1, pay.bill, pay.amount)
                    ELSE db1
               ELSE update_customer_pending_bills(db1, c, pay.amount)
    IN [db2 EXCEPT !.balance = update_balance(db2.balance, db2.bills, c, mem1)]

\* Variant: the amount applied only when the row is inserted.
Payment_resave_once(db, pay, mem0) ==
    [db EXCEPT !.balance = update_balance(db.balance, db.bills, pay.customer, mem0)]

\* save() of a payment that is on file already (the admin's change form,
\* or any instance.save()): super().save() updates the row, the post_save
\* signal fires, and the rest of save() runs as for a new payment; nothing
\* in it looks at whether the row is new.
Payment_resave(db, pay, mem0) == Payment_save(db, pay, mem0)

\* --------------------------------------------------------- Payment.delete
\* Variant: paid_amount not floored at zero.
revert_on_bill_unfloored(db, b, amount) ==
    LET row == db.bills[b]
    IN Bill_save(db, b, [row EXCEPT !.paid = row.paid - amount], db.balance[row.customer])

revert_on_bill(db, b, amount) ==
    LET row == db.bills[b]
        reduced == row.paid - amount
        floored == IF reduced < 0 THEN 0 ELSE reduced
    IN Bill_save(db, b, [row EXCEPT !.paid = floored], db.balance[row.customer])

\* Variant: the deletion of an unlinked payment takes its amount back from
\* a bill of the customer that carries a paid amount.
Payment_delete_taking_back(db, pay, mem0) ==
    LET c == pay.customer
        bal1 == update_balance(db.balance, db.bills, c, mem0)
        mem1 == total_outstanding(db.bills, c)
        db1 == [db EXCEPT !.balance = bal1]
        credited == {b \in BillsOf(db1.bills, c) : db1.bills[b].paid > 0}
        db2 == IF pay.bill # 0 /\ db1.bills[pay.bill].exists
               THEN revert_on_bill(db1, pay.bill, pay.amount)
               ELSE IF credited # {}
               THEN revert_on_bill(db1, CHOOSE b \in credited : TRUE, pay.amount)
               ELSE db1
    IN [db2 EXCEPT !.balance = update_balance(db2.balance, db2.bills, c, mem1)]

Payment_delete(db, pay, mem0) ==
    LET c == pay.customer
        bal1 == update_balance(db.balance, db.bills, c, mem0)
        mem1 == total_outstanding(db.bills, c)
        db1 == [db EXCEPT !.balance = bal1]
        db2 == IF pay.bill # 0 /\ db1.bills[pay.bill].exists
               THEN revert_on_bill(db1, pay.bill, pay.amount)
               ELSE db1
    IN [db2 EXCEPT !.balance = update_balance(db2.balance, db2.bills, c, mem1)]

\* ------------------------------------------------------------ Bill.delete
\* The row goes, Payment.bill of the payments that pointed at it becomes
\* NULL (on_delete=SET_NULL), and the post_delete signal refreshes the
\* balance of the deleted bill's customer.
Bill_delete(db, b) ==
    LET c == db.bills[b].customer
        bl == [db.bills EXCEPT ![b] = NoBill]
    IN [bills |-> bl, balance |-> update_balance(db.balance, bl, c, db.balance[c])]

set_null(pm, b) ==
    [p \in PayIds |-> IF pm[p].exists /\ pm[p].bill = b
                      THEN [pm[p] EXCEPT !.bill = 0] ELSE pm[p]]

\* --------------------------------------------------- views.receive_payment
CustomerExists(ph, c_id) == c_id \in Customers /\ ph[c_id] # 0

BillExists(bl, b_id) == b_id \in BillIds /\ bl[b_id].exists

\* Variant: the bill id is not looked up.
receive_payment_lookup_customer_only(ph, bl, c_id, b_id) ==
    IF ~CustomerExists(ph, c_id) THEN "Customer.DoesNotExist" ELSE "found"

\* Customer.objects.get(id=customer_id), then Bill.objects.get(id=bill_id)
\* unless the bill id is empty (0).
receive_payment_lookup(ph, bl, c_id, b_id) ==
    IF ~CustomerExists(ph, c_id) THEN "Customer.DoesNotExist"
    ELSE IF b_id # 0 /\ ~BillExists(bl, b_id) THEN "Bill.DoesNotExist"
    ELSE "found"

\* A failure is one statement of the request that raises: at is the
\* statement, nth the bill.save() it belongs to (1 for a statement that is
\* not part of a bill.save()).
NoFailure == [at |-> "none", nth |-> 1]

Strikes(fail, at, n) == fail.at = at /\ fail.nth = n

\* Customer.update_balance struck at its aggregate (read) or at its
\* save(update_fields=...) (write).  Both are inside the try: the error is
\* printed and swallowed.  At the aggregate the instance is untouched; at
\* the save the instance has taken the new total and the row has not.
\* struck tells whether the failing statement was reached.
update_balance_failing(bal, bl, c, mem, read, write) ==
    LET total == total_outstanding(bl, c)
    IN IF read THEN [bal |-> bal, mem |-> mem, struck |-> TRUE]
       ELSE IF mem # total
       THEN IF write
            THEN [bal |-> bal, mem |-> total, struck |-> TRUE]
            ELSE [bal |-> [bal EXCEPT ![c] = total], mem |-> total, struck |-> FALSE]
       ELSE [bal |-> bal, mem |-> mem, struck |-> FALSE]

\* Bill.save of an instance fetched without its customer, as the n-th
\* bill.save() of a Payment.save.  "bill_save": super().save() raises, the
\* row is not written.  "bill_customer": the row is written and the fetch of
\* bill.customer in the post_save handler raises.  Both leave Bill.save
\* (raised).  A failure inside one of the two update_balance calls (the
\* handler's, then Bill.save's own, on the same Customer instance) is
\* swallowed there; after a failed write of the handler's call the instance
\* holds the new total, so Bill.save's own call, whose aggregate raises on
\* the marked connection, would have had nothing to write.
Bill_save_failing(db, b, rec, fail, n) ==
    LET saved == [rec EXCEPT !.remaining = derive_remaining(rec.total, rec.paid),
                             !.status = derive_status(rec.total, rec.paid)]
        bl == [db.bills EXCEPT ![b] = saved]
        c == saved.customer
        u1 == update_balance_failing(db.balance, bl, c, db.balance[c],
                                     Strikes(fail, "bsig_read", n), Strikes(fail, "bsig_write", n))
        u2 == update_balance_failing(u1.bal, bl, c, u1.mem,
                                     Strikes(fail, "bsave_read", n), Strikes(fail, "bsave_write", n))
    IN IF Strikes(fail, "bill_save", n)
       THEN [db |-> db, raised |-> TRUE, struck |-> TRUE]
       ELSE IF Strikes(fail, "bill_customer", n)
       THEN [db |-> [db EXCEPT !.bills = bl], raised |-> TRUE, struck |-> TRUE]
       ELSE [db |-> [bills |-> bl, balance |-> u2.bal], raised |-> FALSE,
             struck |-> u1.struck \/ u2.struck]

\* The linked branch up to the end of bill.save().
apply_to_bill_failing(db, b, amount, fail) ==
    LET row == db.bills[b]
        added == row.paid + amount
        capped == IF added > row.total THEN row.total ELSE added
    IN Bill_save_failing(db, b, [row EXCEPT !.paid = capped], fail, 1)

\* The customer row is written by Model.save(): when that write raises
\* inside transaction.atomic(), the error is swallowed by update_balance but
\* the connection is marked (needs_rollback).  Until the end of the block
\* every statement raises TransactionManagementError, and the block is
\* rolled back at its end although no error leaves it.  r is the outcome of
\* the statements run so far in the block.
needs_rollback(r, fail) == r.struck /\ fail.at \in {"bsig_write", "bsave_write"}

\* Whether the loop, going on over queue with left to hand out, comes to
\* another bill.save().
RECURSIVE saves_a_bill(_, _, _)
saves_a_bill(rows, queue, left) ==
    IF queue = <<>> \/ left <= 0 THEN FALSE
    ELSE IF Min(left, rows[Head(queue)].remaining) > 0 THEN TRUE
    ELSE saves_a_bill(rows, Tail(queue), left)

\* The loop of update_customer_pending_bills; n counts its bill.save()s.
\* distribute_after_save goes on from the outcome s of the bill.save() of the
\* head of the queue: an error leaves the loop, and so does the next
\* bill.save() on a connection marked for rollback.
RECURSIVE distribute_failing(_, _, _, _, _, _)
RECURSIVE distribute_after_save(_, _, _, _, _, _)
distribute_failing(db, rows, queue, left, fail, n) ==
    IF queue = <<>> \/ left <= 0 THEN [db |-> db, raised |-> FALSE, struck |-> FALSE]
    ELSE IF Min(left, rows[Head(queue)].remaining) > 0
    THEN distribute_after_save(
             Bill_save_failing(db, Head(queue),
                               [rows[Head(queue)] EXCEPT
                                   !.paid = @ + Min(left, rows[Head(queue)].remaining)],
                               fail, n),
             rows, Tail(queue), left - Min(left, rows[Head(queue)].remaining), fail, n + 1)
    ELSE distribute_failing(db, rows, Tail(queue), left, fail, n)

distribute_after_save(s, rows, queue, left, fail, n) ==
    IF s.raised THEN s
    ELSE IF needs_rollback(s, fail)
    THEN IF saves_a_bill(rows, queue, left) THEN [s EXCEPT !.raised = TRUE] ELSE s
    ELSE [distribute_failing(s.db, rows, queue, left, fail, n) EXCEPT !.struck = @ \/ s.struck]

\* The end of an atomic block: what it wrote is undone when an error leaves
\* it or the connection is marked for rollback.
rolled_back(r, db0, fail) ==
    IF r.raised \/ needs_rollback(r, fail) THEN [r EXCEPT !.db = db0] ELSE r

\* update_customer_pending_bills catches the error and prints it.
caught(r) == IF r.raised THEN [r EXCEPT !.raised = FALSE] ELSE r

\* Payment.save from line 142 to line 173, on the tables db1 left by the
\* insert and its handler.  "bill_get": the select_for_update get of the
\* linked branch, or the queryset of the distribution.  An error that leaves
\* the atomic block rolls the block back.  In the linked branch it then
\* leaves Payment.save (only Bill.DoesNotExist is caught there); in the
\* unlinked branch update_customer_pending_bills catches it and save() goes
\* on.
Payment_save_branch(db1, pay, fail) ==
    IF pay.bill # 0
    THEN IF Strikes(fail, "bill_get", 1)
         THEN [db |-> db1, raised |-> TRUE, struck |-> TRUE]
         ELSE IF db1.bills[pay.bill].exists
         THEN rolled_back(apply_to_bill_failing(db1, pay.bill, pay.amount, fail), db1, fail)
         ELSE [db |-> db1, raised |-> FALSE, struck |-> FALSE]
    ELSE IF Strikes(fail, "bill_get", 1)
         THEN [db |-> db1, raised |-> FALSE, struck |-> TRUE]
         ELSE caught(rolled_back(
                  distribute_failing(db1, db1.bills,
                                     order_by_date(db1.bills, OpenBills(db1.bills, pay.customer)),
                                     pay.amount, fail, 1),
                  db1, fail))

\* The last update_balance of save() ("fin_read", "fin_write"), on the
\* Customer instance the handler sig used, unless an error has left save().
\* mem is what that instance holds afterwards.
Payment_save_finish(body, c, sig, fin) ==
    IF body.raised
    THEN [db |-> body.db, raised |-> TRUE, mem |-> sig.mem, struck |-> TRUE]
    ELSE [db |-> [body.db EXCEPT !.balance = fin.bal], raised |-> FALSE, mem |-> fin.mem,
          struck |-> sig.struck \/ body.struck \/ fin.struck]

\* Payment.save after the insert; sig is the update_balance of the payment's
\* post_save handler.
Payment_save_inserted(body, c, sig, fail) ==
    Payment_save_finish(
        body, c, sig,
        update_balance_failing(body.db.balance, body.db.bills, c, sig.mem,
                               Strikes(fail, "fin_read", 1), Strikes(fail, "fin_write", 1)))

Payment_save_handled(db, pay, sig, fail) ==
    Payment_save_inserted(Payment_save_branch([db EXCEPT !.balance = sig.bal], pay, fail),
                          pay.customer, sig, fail)

\* Payment.save struck by a failure.  "insert": super().save() raises, no
\* row, no further statement.  "sig_read", "sig_write": the update_balance
\* of the payment's post_save handler, on the Customer instance of the
\* payment, which holds mem0.
Payment_save_failing(db, pay, mem0, fail) ==
    IF Strikes(fail, "insert", 1)
    THEN [db |-> db, raised |-> TRUE, mem |-> mem0, struck |-> TRUE]
    ELSE Payment_save_handled(
             db, pay,
             update_balance_failing(db.balance, db.bills, pay.customer, mem0,
                                    Strikes(fail, "sig_read", 1), Strikes(fail, "sig_write", 1)),
             fail)

\* receive_payment after payment.save(): an error that left it ends in the
\* form with an error; otherwise view is the customer.update_balance() of
\* line 379 ("view_read", "view_write": a failure in it, swallowed), and the
\* view redirects.  pm1 is the payments with the new row.
receive_payment_answer(saved, view, pm, pm1, fail) ==
    IF saved.raised
    THEN [bills |-> saved.db.bills, balance |-> saved.db.balance,
          payments |-> IF Strikes(fail, "insert", 1) THEN pm ELSE pm1,
          resp |-> "error", struck |-> TRUE]
    ELSE [bills |-> saved.db.bills, balance |-> view.bal,
          payments |-> pm1, resp |-> "redirect",
          struck |-> saved.struck \/ view.struck]

receive_payment_saved(saved, c_id, pm, pm1, fail) ==
    receive_payment_answer(
        saved,
        update_balance_failing(saved.db.balance, saved.db.bills, c_id, saved.mem,
                               Strikes(fail, "view_read", 1), Strikes(fail, "view_write", 1)),
        pm, pm1, fail)

\* The POST branch: the result is the tables and the response.  A lookup
\* that finds no row or raises ("lookup") ends in the form with an error;
\* otherwise the payment is built and saved, on the Customer instance the
\* lookup fetched.
receive_payment(db, pm, ph, c_id, b_id, amount, p, fail) ==
    IF Strikes(fail, "lookup", 1)
    THEN [bills |-> db.bills, balance |-> db.balance, payments |-> pm, resp |-> "error",
          struck |-> TRUE]
    ELSE IF receive_payment_lookup(ph, db.bills, c_id, b_id) # "found"
    THEN [bills |-> db.bills, balance |-> db.balance, payments |-> pm, resp |-> "error",
          struck |-> FALSE]
    ELSE receive_payment_saved(
             Payment_save_failing(
                 db, [exists |-> TRUE, customer |-> c_id, bill |-> b_id, amount |-> amount],
                 db.balance[c_id], fail),
             c_id, pm,
             [pm EXCEPT ![p] = [exists |-> TRUE, customer |-> c_id, bill |-> b_id,
                                amount |-> amount]],
             fail)

\* ------------------------------------------------- unique=True columns
\* Variant: the phone column without its unique constraint.
phone_taken_never(ph, v) == FALSE

\* Customer.phone is unique: an insert with a phone some row holds fails.
phone_taken(ph, v) == \E c \in Customers : ph[c] # 0 /\ ph[c] = v

\* Bill.bill_number is unique.
number_taken(num, bl, v) == \E b \in BillIds : bl[b].exists /\ num[b] = v

\* --------------------------------------------------- views.save_final_bill
\* Form fields are strings.  int() takes an integer numeral and raises
\* ValueError on anything else; Decimal() takes a decimal numeral and raises
\* InvalidOperation on anything else.
int_ok(str) == str \in {"1", "2"}

int(str) == IF str = "1" THEN 1 ELSE 2

Decimal_ok(str) == str \in {"1", "2", "1.5"}

\* Product.objects.get(id=...): one product, id 1, is on sale.
Product_exists(str) == str = "1"

\* Variant: current_stock as a plain integer column, saved below 0 as well.
RECURSIVE add_items_unchecked(_, _, _)
add_items_unchecked(lines, st, saved) ==
    IF lines = <<>> THEN [items |-> saved, stock |-> st, raised |-> "none"]
    ELSE LET l == Head(lines)
         IN IF l.product = "" \/ l.quantity = "" \/ l.price = ""
            THEN add_items_unchecked(Tail(lines), st, saved)
            ELSE IF ~Product_exists(l.product) THEN add_items_unchecked(Tail(lines), st, saved)
            ELSE IF ~int_ok(l.quantity) THEN add_items_unchecked(Tail(lines), st, saved)
            ELSE IF ~Decimal_ok(l.price)
            THEN [items |-> saved, stock |-> st, raised |-> "InvalidOperation"]
            ELSE LET item == [quantity |-> int(l.quantity), price |-> l.price]
                 IN add_items_unchecked(Tail(lines), st - item.quantity, Append(saved, item))

\* The loop over the submitted lines: a line with an empty field is passed
\* over; Product.DoesNotExist and ValueError are caught and the line is
\* passed over; any other error leaves the view.  st is current_stock, a
\* PositiveIntegerField: saving it below 0 fails with an IntegrityError.
RECURSIVE add_items(_, _, _)
add_items(lines, st, saved) ==
    IF lines = <<>> THEN [items |-> saved, stock |-> st, raised |-> "none"]
    ELSE LET l == Head(lines)
         IN IF l.product = "" \/ l.quantity = "" \/ l.price = ""
            THEN add_items(Tail(lines), st, saved)
            ELSE IF ~Product_exists(l.product) THEN add_items(Tail(lines), st, saved)
            ELSE IF ~int_ok(l.quantity) THEN add_items(Tail(lines), st, saved)
            ELSE IF ~Decimal_ok(l.price)
            THEN [items |-> saved, stock |-> st, raised |-> "InvalidOperation"]
            ELSE LET item == [quantity |-> int(l.quantity), price |-> l.price]
                 IN IF st - item.quantity < 0
                    THEN [items |-> Append(saved, item), stock |-> st, raised |-> "IntegrityError"]
                    ELSE add_items(Tail(lines), st - item.quantity, Append(saved, item))

\* ================================================================= state
DB == [bills |-> bills, balance |-> balance]

FreeBill == {b \in BillIds : ~bills[b].exists /\ \A x \in BillIds : x < b => bills[x].exists}

FreePay == {p \in PayIds : ~payments[p].exists /\ \A x \in PayIds : x < p => payments[x].exists}

\* date defaults to timezone.now(): no two bills carry the same instant.
FreeDates == {d \in Dates : \A b \in BillIds : bills[b].exists => bills[b].date # d}

\* timezone.now(), the default of Bill.date when a bill is entered: an instant
\* later than the date of every bill on file.
timezone_now ==
    IF \A b \in BillIds : ~bills[b].exists THEN 1
    ELSE 1 + CHOOSE d \in {bills[b].date : b \in {x \in BillIds : bills[x].exists}} :
                 \A b \in BillIds : bills[b].exists => bills[b].date <= d

\* last is a history variable: the operation that led to the current state,
\* its arguments, the bill rows it started from, and the same for the
\* operation before it (prev_op, prev_pay, prev_bills).  It is recorded only
\* by the specifications that start with it switched on; those that start
\* with it "light" record the operation, its arguments and its outcome
\* without the bill rows.
\* resp is the response of a view (redirect or error) or the error of a
\* create, fail the failure that struck the operation, if any, key the phone
\* or bill number handed in, lines the line items submitted.
Off == [op |-> "off", customer |-> 0, bill |-> 0, pay |-> 0, amount |-> 0, bills |-> NoBills,
        prev_op |-> "off", prev_pay |-> 0, prev_bills |-> NoBills,
        resp |-> "none", fail |-> NoFailure, key |-> 0, lines |-> <<>>]

Op(name, c, b, p, a) ==
    IF last.op = "off" THEN last
    ELSE IF last.prev_op = "light"
    THEN [op |-> name, customer |-> c, bill |-> b, pay |-> p, amount |-> a, bills |-> NoBills,
          prev_op |-> "light", prev_pay |-> 0, prev_bills |-> NoBills,
          resp |-> "none", fail |-> NoFailure, key |-> 0, lines |-> <<>>]
    ELSE [op |-> name, customer |-> c, bill |-> b, pay |-> p, amount |-> a, bills |-> bills,
          prev_op |-> last.op, prev_pay |-> last.pay, prev_bills |-> last.bills,
          resp |-> "none", fail |-> NoFailure, key |-> 0, lines |-> <<>>]

OpView(name, c, b, p, a, resp, fail) ==
    IF last.op = "off" THEN last
    ELSE [Op(name, c, b, p, a) EXCEPT !.resp = resp, !.fail = fail]

OpKey(name, c, b, key, resp) ==
    IF last.op = "off" THEN last
    ELSE [Op(name, c, b, 0, 0) EXCEPT !.resp = resp, !.key = key]

\* A request in flight: kind is the view that serves it, pc the statement
\* it is about to run, c, b, a its customer id, bill id and amount (t the
\* total, d the date and n the number of the bill save_final_bill enters), p
\* its payment row; mem is the outstanding_balance held by its Customer
\* instance, row the Bill instance it is saving and bmem the
\* outstanding_balance held by that bill's Customer instance; sum is the
\* aggregate update_balance has just read; rows, queue, left are the
\* queryset, the bills still to visit and the amount still to hand out in
\* update_customer_pending_bills (the head of queue is the bill being
\* saved); wrows holds the bill rows, and wbal the outstanding_balance of
\* customer wc (0: none), that the request has written inside its atomic
\* block and not committed yet; paid0 is the paid_amount of the bill as
\* receive_payment has read it, and overlap tells whether another request
\* was in flight at any time between its first and its last statement.
Idle == [kind |-> "none", pc |-> "idle", c |-> 0, b |-> 0, a |-> 0, t |-> 0, d |-> 0, n |-> 0,
         p |-> 0, mem |-> 0, row |-> NoBill, bmem |-> 0, sum |-> 0, rows |-> NoBills,
         queue |-> <<>>, left |-> 0, wrows |-> NoBills, wc |-> 0, wbal |-> 0, paid0 |-> 0,
         overlap |-> FALSE]

\* No bills and no payments yet (NoRows); in Empty the customers are
\* registered, each under a phone of its own.
NoRows ==
    /\ bills = NoBills
    /\ payments = [p \in PayIds |-> NoPayment]
    /\ balance = [c \in Customers |-> 0]
    /\ number = [b \in BillIds |-> 0]
    /\ items = [b \in BillIds |-> <<>>]
    /\ stock = InitialStock
    /\ procs = [i \in Procs |-> Idle]

Empty == NoRows /\ phone = [c \in Customers |-> c]

Init == Empty /\ last = Off

InitTraced == Empty /\ last = [Off EXCEPT !.op = "init"]

InitLight == Empty /\ last = [Off EXCEPT !.op = "init", !.prev_op = "light"]

\* No customer registered yet.
InitSite ==
    /\ NoRows
    /\ phone = [c \in Customers |-> 0]
    /\ last = [Off EXCEPT !.op = "init", !.prev_op = "light"]

\* Bill.objects.create(...) / Bill(...).save(): a new row with any total and
\* paid amount; the remaining_amount and payment_status handed in are
\* overwritten by save().
BillCreate(b, c, d, t, p) ==
    /\ b \in FreeBill
    /\ d \in FreeDates
    /\ LET rec == [exists |-> TRUE, customer |-> c, date |-> d, total |-> t,
                   paid |-> p, remaining |-> 0, status |-> "pending"]
           db == Bill_save(DB, b, rec, balance[c])
       IN /\ bills' = db.bills
          /\ balance' = db.balance
    /\ last' = Op("BillCreate", c, b, 0, 0)
    /\ UNCHANGED <<payments, site>>

\* An existing bill loaded, its owner, total or paid amount edited, saved.
BillEdit(b, c, t, p) ==
    /\ bills[b].exists
    /\ LET rec == [bills[b] EXCEPT !.customer = c, !.total = t, !.paid = p]
           db == Bill_save(DB, b, rec, balance[c])
       IN /\ bills' = db.bills
          /\ balance' = db.balance
    /\ last' = Op("BillEdit", c, b, 0, 0)
    /\ UNCHANGED <<payments, site>>

BillDelete(b) ==
    /\ bills[b].exists
    /\ LET db == Bill_delete(DB, b)
       IN /\ bills' = db.bills
          /\ balance' = db.balance
    /\ payments' = set_null(payments, b)
    /\ number' = [number EXCEPT ![b] = 0]
    /\ items' = [items EXCEPT ![b] = <<>>]
    /\ last' = Op("BillDelete", bills[b].customer, b, 0, 0)
    /\ UNCHANGED <<phone, stock, procs>>

\* Payment.objects.create(customer, bill or None, amount): bill 0 is None.
PaymentCreate(p, c, b, a) ==
    /\ p \in FreePay
    /\ b # 0 => bills[b].exists
    /\ LET pay == [exists |-> TRUE, customer |-> c, bill |-> b, amount |-> a]
           db == Payment_save(DB, pay, balance[c])
       IN /\ payments' = [payments EXCEPT ![p] = pay]
          /\ bills' = db.bills
          /\ balance' = db.balance
    /\ last' = Op("PaymentCreate", c, b, p, a)
    /\ UNCHANGED site

PaymentDelete(p) ==
    /\ payments[p].exists
    /\ LET pay == payments[p]
           db == Payment_delete(DB, pay, balance[pay.customer])
       IN /\ bills' = db.bills
          /\ balance' = db.balance
    /\ payments' = [payments EXCEPT ![p] = NoPayment]
    /\ last' = Op("PaymentDelete", payments[p].customer, payments[p].bill, p, payments[p].amount)
    /\ UNCHANGED site

\* views.update_all_balances: update_balance() on every customer on file,
\* each on an instance just fetched.
update_all_balances(bal, bl, ph) ==
    [c \in Customers |-> IF ph[c] # 0 THEN update_balance(bal, bl, c, bal[c])[c] ELSE bal[c]]

UpdateAllBalances ==
    /\ balance' = update_all_balances(balance, bills, phone)
    /\ last' = Op("update_all_balances", 0, 0, 0, 0)
    /\ UNCHANGED <<bills, payments, site>>

\* A payment on file is loaded and saved again, its customer, bill and
\* amount as they are.
PaymentResave(p) ==
    /\ payments[p].exists
    /\ LET pay == payments[p]
           db == Payment_resave(DB, pay, balance[pay.customer])
       IN /\ bills' = db.bills
          /\ balance' = db.balance
    /\ last' = Op("PaymentResave", payments[p].customer, payments[p].bill, p, payments[p].amount)
    /\ UNCHANGED <<payments, site>>

FreeCustomer == {c \in Customers : phone[c] = 0 /\ \A x \in Customers : x < c => phone[x] # 0}

\* Customer.objects.create(phone=ph, ...): the insert fails with an
\* IntegrityError when the phone is taken.
CustomerCreate(c, ph) ==
    /\ c \in FreeCustomer
    /\ IF phone_taken(phone, ph)
       THEN /\ last' = OpKey("Customer.create", c, 0, ph, "IntegrityError")
            /\ UNCHANGED <<phone, balance>>
       ELSE /\ phone' = [phone EXCEPT ![c] = ph]
            /\ balance' = [balance EXCEPT ![c] = 0]
            /\ last' = OpKey("Customer.create", c, 0, ph, "created")
    /\ UNCHANGED <<bills, payments, number, items, stock, procs>>

\* Bill.objects.create(bill_number=n, customer, ...): the insert inside
\* Bill.save fails with an IntegrityError when the number is taken, before
\* any balance is touched.
BillCreateNumbered(b, c, d, t, p, n) ==
    /\ b \in FreeBill
    /\ d \in FreeDates
    /\ CustomerExists(phone, c)
    /\ IF number_taken(number, bills, n)
       THEN /\ last' = OpKey("Bill.create", c, b, n, "IntegrityError")
            /\ UNCHANGED <<bills, balance, number>>
       ELSE /\ LET rec == [exists |-> TRUE, customer |-> c, date |-> d, total |-> t,
                           paid |-> p, remaining |-> 0, status |-> "pending"]
                   db == Bill_save(DB, b, rec, balance[c])
               IN /\ bills' = db.bills
                  /\ balance' = db.balance
            /\ number' = [number EXCEPT ![b] = n]
            /\ last' = OpKey("Bill.create", c, b, n, "created")
    /\ UNCHANGED <<payments, phone, items, stock, procs>>

\* Bill.objects.create(bill_number=n, customer, ...) without a date: date
\* takes its default, timezone.now().
BillCreateNow(b, c, t, p, n) ==
    /\ b \in FreeBill
    /\ timezone_now <= MaxDate
    /\ CustomerExists(phone, c)
    /\ IF number_taken(number, bills, n)
       THEN /\ last' = OpKey("Bill.create", c, b, n, "IntegrityError")
            /\ UNCHANGED <<bills, balance, number>>
       ELSE /\ LET rec == [exists |-> TRUE, customer |-> c, date |-> timezone_now, total |-> t,
                           paid |-> p, remaining |-> 0, status |-> "pending"]
                   db == Bill_save(DB, b, rec, balance[c])
               IN /\ bills' = db.bills
                  /\ balance' = db.balance
            /\ number' = [number EXCEPT ![b] = n]
            /\ last' = OpKey("Bill.create", c, b, n, "created")
    /\ UNCHANGED <<payments, phone, items, stock, procs>>

\* POST of the confirmed bill: the customer is fetched by phone or created,
\* the bill is created with paid_amount 0 under the number n the clock
\* gives, the line items are added, and a payment linked to the bill is
\* created when the paid amount P is above 0.  An error that leaves the view
\* keeps what was written before it.
SaveFinalBill(ph, T, P, lines, n) ==
    LET found == {x \in Customers : phone[x] = ph}
        c == IF found = {} THEN CHOOSE x \in FreeCustomer : TRUE ELSE CHOOSE x \in found : TRUE
        b == CHOOSE x \in FreeBill : TRUE
        p == IF P > 0 THEN CHOOSE x \in FreePay : TRUE ELSE 0
        rec == [exists |-> TRUE, customer |-> c, date |-> timezone_now, total |-> T,
                paid |-> 0, remaining |-> 0, status |-> "pending"]
        db1 == Bill_save(DB, b, rec, balance[c])
        loop == add_items(lines, stock, <<>>)
        pay == [exists |-> TRUE, customer |-> c, bill |-> b, amount |-> P]
        db2 == IF P > 0 THEN Payment_save(db1, pay, db1.balance[c]) ELSE db1
        done(resp) == IF last.op = "off" THEN last
                      ELSE [OpView("save_final_bill", c, b, p, P, resp, NoFailure)
                               EXCEPT !.key = n, !.lines = lines]
    IN /\ FreeBill # {}
       /\ timezone_now <= MaxDate
       /\ found = {} => FreeCustomer # {}
       /\ P > 0 => FreePay # {}
       /\ phone' = [phone EXCEPT ![c] = ph]
       /\ IF number_taken(number, bills, n)
          THEN /\ last' = done("IntegrityError")
               /\ UNCHANGED <<bills, payments, balance, number, items, stock>>
          ELSE /\ number' = [number EXCEPT ![b] = n]
               /\ items' = [items EXCEPT ![b] = loop.items]
               /\ stock' = loop.stock
               /\ IF loop.raised # "none"
                  THEN /\ bills' = db1.bills
                       /\ balance' = db1.balance
                       /\ last' = done(loop.raised)
                       /\ UNCHANGED payments
                  ELSE /\ bills' = db2.bills
                       /\ balance' = db2.balance
                       /\ payments' = IF P > 0 THEN [payments EXCEPT ![p] = pay] ELSE payments
                       /\ last' = done("redirect")
       /\ UNCHANGED procs

\* POST to receive_payment with a customer id, a bill id (0: none) and an
\* amount; fail is the failure that strikes the request, if any: a statement
\* the request runs.
Answered(r, c_id, b_id, p, a, fail) ==
    /\ fail.at # "none" => r.struck
    /\ bills' = r.bills
    /\ balance' = r.balance
    /\ payments' = r.payments
    /\ last' = OpView("receive_payment", c_id, b_id, p, a, r.resp, fail)
    /\ UNCHANGED site

ReceivePayment(p, c_id, b_id, a, fail) ==
    /\ p \in FreePay
    /\ Answered(receive_payment(DB, payments, phone, c_id, b_id, a, p, fail),
                c_id, b_id, p, a, fail)

\* ------------------------------------------------------------------------
\* receive_payment and save_final_bill statement by statement, for requests
\* that run at the same time.  Every step is one database statement with the
\* local computation that follows it.  A statement outside
\* transaction.atomic() is committed on its own and seen by the other
\* requests at once.  What a request writes inside the atomic block of
\* Payment.save or of update_customer_pending_bills is seen by that request
\* only, until the block ends and commits; a row that select_for_update()
\* has read or that was written inside the block stays locked until the
\* block ends, and the other requests wait to lock or to write it.  Every
\* statement reads what is committed by then, and what its own block wrote.

\* The statements of an atomic block that follow its first one.
BlockPcs == {"bill_write", "bill_customer", "bsig_sum", "bsig_write",
             "bsave_sum", "bsave_write", "commit"}

\* The request holds the lock of bill row b: select_for_update() of the
\* linked branch has read it, or a bill.save() of the block has written it.
holds_bill(r, b) == (r.b = b /\ r.pc \in BlockPcs) \/ r.wrows[b].exists

\* Variant: no request waits for a bill row.
row_lock_free_ignored(pr, i, b) == TRUE

\* No other request holds the lock of bill row b.
row_lock_free(pr, i, b) == \A j \in Procs \ {i} : ~holds_bill(pr[j], b)

\* No other request has written the row of customer c inside a block that
\* is still open.
customer_lock_free(pr, i, c) == \A j \in Procs \ {i} : pr[j].wc # c

\* The rows a statement of request r reads: the committed ones, under what
\* the block of r has written.
visible_bills(bl, r) ==
    [b \in BillIds |-> IF r.wrows[b].exists THEN r.wrows[b] ELSE bl[b]]

visible_balance(bal, r) ==
    [c \in Customers |-> IF r.wc = c THEN r.wbal ELSE bal[c]]

\* The customer whose balance the update_balance at pc works on, and the
\* value its Customer instance holds: inside Bill.save of the atomic block
\* it is the customer fetched for the bill, elsewhere the customer object of
\* the view.
ub_customer(r) == IF r.pc \in {"bsig_sum", "bsig_write", "bsave_sum", "bsave_write"}
                  THEN r.row.customer ELSE r.c

\* Variant: the aggregate tested for being non-zero instead of compared
\* with the instance.
ub_cached_zero(r) == 0

ub_cached(r) == IF r.pc \in {"bsig_sum", "bsave_sum"} THEN r.bmem ELSE r.mem

\* The statement that saves the instance after the aggregate was read at pc.
ub_write_pc(pc) ==
    CASE pc = "sig_sum" -> "sig_write"
      [] pc = "nsig_sum" -> "nsig_write"
      [] pc = "nsave_sum" -> "nsave_write"
      [] pc = "bsig_sum" -> "bsig_write"
      [] pc = "bsave_sum" -> "bsave_write"
      [] pc = "fin_sum" -> "fin_write"
      [] OTHER -> "view_write"

\* Variant: what a bill is handed is not added to its paid_amount.
RECURSIVE next_bill_adding_nothing(_)
next_bill_adding_nothing(r) ==
    IF r.queue = <<>> \/ r.left <= 0
    THEN [r EXCEPT !.pc = "commit", !.queue = <<>>, !.rows = NoBills, !.left = 0, !.row = NoBill]
    ELSE LET b == Head(r.queue)
             amount_to_pay == Min(r.left, r.rows[b].remaining)
         IN IF amount_to_pay > 0
            THEN [r EXCEPT !.pc = "bill_write", !.left = r.left - amount_to_pay,
                           !.row = r.rows[b]]
            ELSE next_bill_adding_nothing([r EXCEPT !.queue = Tail(r.queue)])

\* The loop of update_customer_pending_bills up to its next bill.save(): the
\* bills that get nothing are passed over, the loop ends when nothing is
\* left and the block commits; r.row becomes the instance about to be saved.
RECURSIVE next_bill(_)
next_bill(r) ==
    IF r.queue = <<>> \/ r.left <= 0
    THEN [r EXCEPT !.pc = "commit", !.queue = <<>>, !.rows = NoBills, !.left = 0, !.row = NoBill]
    ELSE LET b == Head(r.queue)
             amount_to_pay == Min(r.left, r.rows[b].remaining)
         IN IF amount_to_pay > 0
            THEN [r EXCEPT !.pc = "bill_write", !.left = r.left - amount_to_pay,
                           !.row = [r.rows[b] EXCEPT !.paid = r.rows[b].paid + amount_to_pay]]
            ELSE next_bill([r EXCEPT !.queue = Tail(r.queue)])

\* Where a request goes once the update_balance at pc has returned.  After
\* the last one of Payment.save, receive_payment calls update_balance once
\* more; save_final_bill redirects.
ub_return(r, linked) ==
    CASE r.pc \in {"nsig_sum", "nsig_write"} -> [r EXCEPT !.pc = "nsave_sum"]
      [] r.pc \in {"nsave_sum", "nsave_write"} ->
            IF r.a > 0 THEN [r EXCEPT !.pc = "insert"] ELSE [r EXCEPT !.pc = "done"]
      [] r.pc \in {"sig_sum", "sig_write"} ->
            IF linked THEN [r EXCEPT !.pc = "lock"] ELSE [r EXCEPT !.pc = "query"]
      [] r.pc \in {"bsig_sum", "bsig_write"} -> [r EXCEPT !.pc = "bsave_sum"]
      [] r.pc \in {"bsave_sum", "bsave_write"} ->
            IF linked THEN [r EXCEPT !.pc = "commit"]
            ELSE next_bill([r EXCEPT !.queue = Tail(r.queue)])
      [] r.pc \in {"fin_sum", "fin_write"} ->
            IF r.kind = "save_final_bill" THEN [r EXCEPT !.pc = "done"]
            ELSE [r EXCEPT !.pc = "view_sum"]
      [] OTHER -> [r EXCEPT !.pc = "done"]

Linked(i) == procs[i].b # 0

InFlight(i) == procs[i].pc \notin {"idle", "done"}

\* procs once request i has come in as r: the requests in flight with it
\* have overlapped, and so has r when there is one.
came_in(i, r) ==
    [j \in Procs |->
        IF j = i THEN [r EXCEPT !.overlap = \E k \in Procs \ {i} : InFlight(k)]
        ELSE IF InFlight(j) THEN [procs[j] EXCEPT !.overlap = TRUE]
        ELSE procs[j]]

\* Customer.objects.get(id=customer_id) of receive_payment, for a customer
\* on file: the Customer instance of the view is read.
ReqStart(i, c_id, b_id, a) ==
    /\ procs[i].pc = "idle"
    /\ receive_payment_lookup_customer_only(phone, bills, c_id, b_id) = "found"
    /\ procs' = came_in(i, [Idle EXCEPT !.kind = "receive_payment",
                                        !.pc = IF b_id # 0 THEN "lookup_bill" ELSE "insert",
                                        !.c = c_id, !.b = b_id, !.a = a,
                                        !.mem = balance[c_id]])
    /\ UNCHANGED <<bills, payments, balance, last, phone, number, items, stock>>

\* Bill.objects.get(id=bill_id) of receive_payment: the Bill instance of the
\* view is read; without the row, Bill.DoesNotExist is answered with the
\* form.
ReqLookupBill(i) ==
    /\ procs[i].pc = "lookup_bill"
    /\ procs' = [procs EXCEPT ![i] =
                    IF receive_payment_lookup(phone, bills, procs[i].c, procs[i].b) = "found"
                    THEN [procs[i] EXCEPT !.pc = "lookup_str",
                                          !.paid0 = bills[procs[i].b].paid]
                    ELSE [procs[i] EXCEPT !.pc = "done"]]
    /\ UNCHANGED <<bills, payments, balance, last, phone, number, items, stock>>

\* The print of the bill in receive_payment: Bill.__str__ fetches the
\* bill's customer for its name; nothing of it is used afterwards.  The
\* Payment is built.
ReqLookupStr(i) ==
    /\ procs[i].pc = "lookup_str"
    /\ procs' = [procs EXCEPT ![i].pc = "insert"]
    /\ UNCHANGED <<bills, payments, balance, last, phone, number, items, stock>>

\* save_final_bill fetches the customer registered under the phone ph; T is
\* the total of the bill and P the amount paid with it.
ReqStartBill(i, ph, T, P) ==
    /\ procs[i].pc = "idle"
    /\ \E c \in Customers :
          /\ phone[c] = ph
          /\ procs' = came_in(i, [Idle EXCEPT !.kind = "save_final_bill", !.pc = "cust_save",
                                              !.c = c, !.t = T, !.a = P,
                                              !.mem = balance[c]])
    /\ UNCHANGED <<bills, payments, balance, last, phone, number, items, stock>>

\* customer.save() of save_final_bill, with the name and address of the
\* form: every column of the row is written from the instance.
ReqCustomerSave(i) ==
    /\ procs[i].pc = "cust_save"
    /\ customer_lock_free(procs, i, procs[i].c)
    /\ balance' = [balance EXCEPT ![procs[i].c] = procs[i].mem]
    /\ procs' = [procs EXCEPT ![i].pc = "build_bill"]
    /\ UNCHANGED <<bills, payments, last, phone, number, items, stock>>

\* The latest instant at which a bill was dated, on file or built by a
\* request and not inserted yet (0: none), and the bill_number given at
\* that instant (0: a bill entered without one).
clock_latest ==
    LET S == {bills[b].date : b \in {x \in BillIds : bills[x].exists}}
                 \cup {procs[i].d : i \in Procs}
    IN CHOOSE d \in S : \A x \in S : x <= d

clock_number ==
    IF clock_latest = 0 THEN 0
    ELSE IF \E i \in Procs : procs[i].d = clock_latest
         THEN procs[CHOOSE i \in Procs : procs[i].d = clock_latest].n
         ELSE number[CHOOSE b \in BillIds : bills[b].exists /\ bills[b].date = clock_latest]

\* Bill.objects.create of save_final_bill builds the instance: the
\* bill_number is timezone.now() to the second, the date defaults to
\* timezone.now().  The instant is later than that of every bill dated so
\* far; the second is a new one (numbered by the instant) or still that of
\* the bill dated last.
ReqBuildBill(i) ==
    /\ procs[i].pc = "build_bill"
    /\ clock_latest + 1 <= MaxDate
    /\ \E n \in {clock_latest + 1} \cup ({clock_number} \ {0}) :
          procs' = [procs EXCEPT ![i].pc = "new_bill", ![i].d = clock_latest + 1, ![i].n = n]
    /\ UNCHANGED <<bills, payments, balance, last, phone, number, items, stock>>

\* super().save() of Bill.save for the bill save_final_bill has built: the
\* row is inserted with nothing paid and no line items.  A bill_number that
\* is on file already raises IntegrityError, which ends the request.
ReqNewBill(i) ==
    /\ procs[i].pc = "new_bill"
    /\ IF number_taken(number, bills, procs[i].n)
       THEN /\ procs' = [procs EXCEPT ![i].pc = "done", ![i].d = 0, ![i].n = 0]
            /\ UNCHANGED <<bills, number>>
       ELSE \E b \in FreeBill :
               /\ bills' = [bills EXCEPT ![b] =
                               [exists |-> TRUE, customer |-> procs[i].c, date |-> procs[i].d,
                                total |-> procs[i].t, paid |-> 0,
                                remaining |-> derive_remaining(procs[i].t, 0),
                                status |-> derive_status(procs[i].t, 0)]]
               /\ number' = [number EXCEPT ![b] = procs[i].n]
               /\ procs' = [procs EXCEPT ![i].pc = "nsig_sum", ![i].b = b,
                                         ![i].d = 0, ![i].n = 0]
    /\ UNCHANGED <<payments, balance, last, phone, items, stock>>

\* super().save() of Payment.save: the row is inserted.
ReqInsert(i) ==
    /\ procs[i].pc = "insert"
    /\ \E p \in FreePay :
          /\ payments' = [payments EXCEPT ![p] = [exists |-> TRUE, customer |-> procs[i].c,
                                                  bill |-> procs[i].b, amount |-> procs[i].a]]
          /\ procs' = [procs EXCEPT ![i].pc = "sig_sum", ![i].p = p]
    /\ UNCHANGED <<bills, balance, last, phone, number, items, stock>>

\* update_balance: the aggregate is read and compared with the instance.
ReqSum(i) ==
    /\ procs[i].pc \in {"sig_sum", "nsig_sum", "nsave_sum", "bsig_sum", "bsave_sum",
                        "fin_sum", "view_sum"}
    /\ LET r == procs[i]
           s == total_outstanding(visible_bills(bills, r), ub_customer(r))
       IN procs' = [procs EXCEPT ![i] =
                       IF ub_cached(r) # s
                       THEN [r EXCEPT !.sum = s, !.pc = ub_write_pc(r.pc)]
                       ELSE ub_return(r, Linked(i))]
    /\ UNCHANGED <<bills, payments, balance, last, phone, number, items, stock>>

\* update_balance: the instance takes the aggregate and is saved, once no
\* open block of another request has written the customer's row.  Inside
\* the atomic block the write waits for the commit to be seen.
ReqWrite(i) ==
    /\ procs[i].pc \in {"sig_write", "nsig_write", "nsave_write", "bsig_write", "bsave_write",
                        "fin_write", "view_write"}
    /\ customer_lock_free(procs, i, ub_customer(procs[i]))
    /\ LET r == procs[i]
       IN IF r.pc \in {"bsig_write", "bsave_write"}
          THEN /\ procs' = [procs EXCEPT ![i] =
                               ub_return([r EXCEPT !.bmem = r.sum, !.sum = 0,
                                                   !.wc = ub_customer(r), !.wbal = r.sum],
                                         Linked(i))]
               /\ UNCHANGED balance
          ELSE /\ procs' = [procs EXCEPT ![i] =
                               ub_return([r EXCEPT !.mem = r.sum, !.sum = 0], Linked(i))]
               /\ balance' = [balance EXCEPT ![ub_customer(r)] = r.sum]
    /\ UNCHANGED <<bills, payments, last, phone, number, items, stock>>

\* Bill.objects.select_for_update().get(), the first statement of the atomic
\* block of the linked branch: waits for the row, reads it; the amount is
\* added to the instance and capped.
ReqLock(i) ==
    /\ procs[i].pc = "lock"
    /\ row_lock_free(procs, i, procs[i].b)
    /\ LET r == procs[i]
           row == bills[r.b]
           added == row.paid + r.a
           capped == IF added > row.total THEN row.total ELSE added
       IN procs' = [procs EXCEPT ![i] =
                       IF row.exists
                       THEN [r EXCEPT !.pc = "bill_write", !.row = [row EXCEPT !.paid = capped]]
                       ELSE [r EXCEPT !.pc = "fin_sum"]]
    /\ UNCHANGED <<bills, payments, balance, last, phone, number, items, stock>>

\* super().save() of Bill.save inside the atomic block: waits for the row;
\* the instance, with remaining_amount and payment_status derived,
\* overwrites the row, for the other requests to see at the commit.
ReqBillWrite(i) ==
    /\ procs[i].pc = "bill_write"
    /\ LET r == procs[i]
           saved == [r.row EXCEPT !.remaining = derive_remaining(r.row.total, r.row.paid),
                                  !.status = derive_status(r.row.total, r.row.paid)]
           target == IF r.b # 0 THEN r.b ELSE Head(r.queue)
       IN /\ row_lock_free(procs, i, target)
          /\ procs' = [procs EXCEPT ![i].pc = "bill_customer", ![i].row = saved,
                                    ![i].wrows[target] = saved]
    /\ UNCHANGED <<bills, payments, balance, last, phone, number, items, stock>>

\* The bill's customer is fetched for the signal handler and Bill.save.
ReqBillCustomer(i) ==
    /\ procs[i].pc = "bill_customer"
    /\ procs' = [procs EXCEPT ![i].pc = "bsig_sum",
                              ![i].bmem = visible_balance(balance, procs[i])[procs[i].row.customer]]
    /\ UNCHANGED <<bills, payments, balance, last, phone, number, items, stock>>

\* The atomic block ends: what it wrote is committed and its row locks are
\* released.
ReqCommit(i) ==
    /\ procs[i].pc = "commit"
    /\ bills' = visible_bills(bills, procs[i])
    /\ balance' = visible_balance(balance, procs[i])
    /\ procs' = [procs EXCEPT ![i].pc = "fin_sum", ![i].row = NoBill, ![i].bmem = 0,
                              ![i].wrows = NoBills, ![i].wc = 0, ![i].wbal = 0]
    /\ UNCHANGED <<payments, last, phone, number, items, stock>>

\* The queryset of update_customer_pending_bills is evaluated, the first
\* statement of its atomic block.
ReqQuery(i) ==
    /\ procs[i].pc = "query"
    /\ LET r == procs[i]
       IN procs' = [procs EXCEPT ![i] =
                       next_bill([r EXCEPT !.rows = bills, !.left = r.a,
                                           !.queue = order_by_date(bills, OpenBills(bills, r.c))])]
    /\ UNCHANGED <<bills, payments, balance, last, phone, number, items, stock>>

\* The requests whose row lock request i is waiting for.
waits_for(pr, i) ==
    LET r == pr[i]
    IN {j \in Procs \ {i} :
           CASE r.pc = "lock" -> holds_bill(pr[j], r.b)
             [] r.pc = "bill_write" ->
                   holds_bill(pr[j], IF r.b # 0 THEN r.b ELSE Head(r.queue))
             [] r.pc \in {"cust_save", "sig_write", "nsig_write", "nsave_write", "bsig_write",
                          "bsave_write", "fin_write", "view_write"} ->
                   pr[j].wc = ub_customer(r)
             [] OTHER -> FALSE}

\* Two requests wait for each other's row lock inside their atomic blocks
\* and the database makes the statement of one of them fail.  A failed
\* bill.save() leaves update_customer_pending_bills' block, which is rolled
\* back, and is caught there; a failed save inside update_balance is
\* swallowed there and marks the transaction, so that the block is rolled
\* back at its end.  Payment.save goes on to its last update_balance.
ReqDeadlock(i) ==
    /\ procs[i].pc \in {"bsig_write", "bsave_write"}
         \/ (procs[i].pc = "bill_write" /\ ~Linked(i))
    /\ \E j \in waits_for(procs, i) : i \in waits_for(procs, j)
    /\ procs' = [procs EXCEPT ![i] =
                    [procs[i] EXCEPT !.pc = "fin_sum", !.row = NoBill, !.bmem = 0, !.sum = 0,
                                     !.rows = NoBills, !.queue = <<>>, !.left = 0,
                                     !.wrows = NoBills, !.wc = 0, !.wbal = 0]]
    /\ UNCHANGED <<bills, payments, balance, last, phone, number, items, stock>>

\* ------------------------------------------------------------------------
\* The operations on bills, payments and balances.  A bill is entered
\* under a number of its own (its id), with no line items; one payment is on
\* file at a time; re-saving a payment stops at a paid_amount of -MaxAmt.
Next ==
    \/ \E b \in BillIds, c \in Customers, t \in 0..MaxLedgerAmt, p \in LedgerVals :
          BillCreateNow(b, c, t, p, b)
    \/ \E b \in BillIds, c \in Customers, t \in 0..MaxLedgerAmt, p \in LedgerVals :
          BillEdit(b, c, t, p)
    \/ \E b \in BillIds : BillDelete(b)
    \/ \E p \in 1..MaxLivePayments, c \in Customers, b \in {0} \cup BillIds, a \in LedgerVals :
          PaymentCreate(p, c, b, a)
    \/ \E p \in PayIds : PaymentDelete(p)
    \/ \E p \in PayIds :
          PaymentResave(p) /\ \A b \in BillIds : bills'[b].paid >= 0 - MaxAmt
    \/ \E p \in 1..MaxLivePayments, c_id \in Customers, b_id \in {0} \cup BillIds,
            a \in LedgerVals :
          ReceivePayment(p, c_id, b_id, a, NoFailure)
    \/ UpdateAllBalances
    \/ \E ph \in Customers, T \in 0..MaxLedgerAmt, P \in 0..MaxLedgerAmt, n \in BillIds :
          /\ n \in FreeBill
          /\ P > 0 => \E p \in 1..MaxLivePayments : p \in FreePay
          /\ SaveFinalBill(ph, T, P, <<>>, n)

Spec == Init /\ [][Next]_vars

\* Bill.save alone, on every combination of total_amount and paid_amount.
NextBills ==
    \/ \E b \in BillIds, c \in Customers, d \in Dates, t \in AmountVals, p \in AmountVals :
          BillCreate(b, c, d, t, p)
    \/ \E b \in BillIds, c \in Customers, t \in AmountVals, p \in AmountVals :
          BillEdit(b, c, t, p)
    \/ \E b \in BillIds : BillDelete(b)

SpecBills == Init /\ [][NextBills]_vars

\* Payments in normal operation: bills with non-negative amounts, payments
\* with positive amounts, linked to a bill or not, created and deleted.
NextPay ==
    \/ \E b \in BillIds, c \in Customers, d \in Dates, t \in NonNegVals, p \in NonNegVals :
          BillCreate(b, c, d, t, p)
    \/ \E p \in 1..MaxLivePayments, c \in Customers, b \in {0} \cup BillIds, a \in PositiveVals :
          PaymentCreate(p, c, b, a)
    \/ \E p \in PayIds : PaymentDelete(p)

SpecPay == InitTraced /\ [][NextPay]_vars

\* Bills created unpaid and payments linked to them, created only.
NextLinked ==
    \/ \E b \in BillIds, c \in Customers, d \in Dates, t \in AmountVals :
          BillCreate(b, c, d, t, 0)
    \/ \E p \in PayIds, c \in Customers, b \in BillIds, a \in PositiveVals :
          PaymentCreate(p, c, b, a)

SpecLinked == Init /\ [][NextLinked]_vars

\* Payment requests, good and bad: ids that exist or not, amounts of either
\* sign, with or without a failure while the payment is applied.
Failures ==
    {[at |-> k, nth |-> 1] :
        k \in {"none", "lookup", "insert", "sig_read", "sig_write", "bill_get",
               "fin_read", "fin_write", "view_read", "view_write"}}
    \cup {[at |-> k, nth |-> n] :
             k \in {"bill_save", "bill_customer", "bsig_read", "bsig_write",
                    "bsave_read", "bsave_write"},
             n \in 1..MaxBills}

NextErr ==
    \/ \E b \in BillIds, c \in Customers, t \in NonNegVals :
          BillCreate(b, c, b, t, 0)
    \/ \E p \in 1..MaxLivePayments, c_id \in 1..(NumCustomers + 1), b_id \in {0} \cup BillIds,
            a \in LedgerVals, fail \in Failures :
          ReceivePayment(p, c_id, b_id, a, fail)

SpecErr == InitLight /\ [][NextErr]_vars

Phones == 1..NumCustomers

Numbers == 1..MaxBills

Line(product, quantity, price) == [product |-> product, quantity |-> quantity, price |-> price]

\* A well-formed line, one with a malformed quantity, one with a malformed
\* price.
Lines == {Line("1", "1", "1.5"), Line("1", "x", "1"), Line("1", "1", "x")}

Submissions == UNION {[1..k -> Lines] : k \in 0..MaxLines}

\* Bills confirmed through the bill form: every list of line items with a
\* fixed total, and every total and paid amount with one well-formed line.
NextSite ==
    \/ \E ph \in Phones, P \in 0..MaxLedgerAmt, lines \in Submissions, n \in Numbers :
          SaveFinalBill(ph, MaxAmt, P, lines, n)
    \/ \E ph \in Phones, T \in NonNegVals, P \in AmountVals, n \in Numbers :
          SaveFinalBill(ph, T, P, <<Line("1", "1", "1.5")>>, n)

SpecSite == InitSite /\ [][NextSite]_vars

\* Customers and bills created under phones and bill numbers that may be
\* taken already.
NextUnique ==
    \/ \E c \in Customers, ph \in Phones : CustomerCreate(c, ph)
    \/ \E b \in BillIds, c \in Customers, t \in 1..MaxLedgerAmt, n \in Numbers :
          BillCreateNumbered(b, c, b, t, 0, n)
    \/ \E ph \in Phones, n \in Numbers : SaveFinalBill(ph, MaxLedgerAmt, 0, <<>>, n)

SpecUnique == InitSite /\ [][NextUnique]_vars

\* Bills of one customer are entered first; then payment requests for that
\* customer, each for no bill or for a bill on file, come in and run at the
\* same time, statement by statement.
NextConc ==
    \/ \E b \in BillIds, t \in 1..MaxAmt, p \in 0..MaxLedgerAmt :
          /\ \A i \in Procs : procs[i].pc = "idle"
          /\ BillCreate(b, 1, b, t, p)
    \/ \E i \in Procs, b \in {0} \cup BillIds, a \in 1..MaxAmt :
          /\ b # 0 => bills[b].exists
          /\ ReqStart(i, 1, b, a)
    \/ \E i \in Procs : ReqLookupBill(i)
    \/ \E i \in Procs : ReqLookupStr(i)
    \/ \E i \in Procs : ReqInsert(i)
    \/ \E i \in Procs : ReqSum(i)
    \/ \E i \in Procs : ReqWrite(i)
    \/ \E i \in Procs : ReqLock(i)
    \/ \E i \in Procs : ReqBillWrite(i)
    \/ \E i \in Procs : ReqBillCustomer(i)
    \/ \E i \in Procs : ReqCommit(i)
    \/ \E i \in Procs : ReqQuery(i)
    \/ \E i \in Procs : ReqDeadlock(i)

SpecConc == Init /\ [][NextConc]_vars

\* Bills of one customer are entered first; then bills are submitted
\* through save_final_bill for that customer, registered under phone 1, with
\* or without an amount paid, and payments through receive_payment, each
\* for no bill or for a bill on file, and the requests run at the same
\* time, statement by statement.  A bill is submitted while the bill ids
\* last.
NextConcBill ==
    \/ \E b \in BillIds, t \in 1..MaxAmt, p \in 0..MaxLedgerAmt :
          /\ \A i \in Procs : procs[i].pc = "idle"
          /\ BillCreate(b, 1, b, t, p)
    \/ \E i \in Procs, T \in 1..MaxAmt, P \in 0..MaxLedgerAmt :
          /\ Cardinality({b \in BillIds : ~bills[b].exists}) >
                Cardinality({j \in Procs :
                                procs[j].pc \in {"cust_save", "build_bill", "new_bill"}})
          /\ ReqStartBill(i, 1, T, P)
    \/ \E i \in Procs, b \in {0} \cup BillIds, a \in 1..MaxAmt :
          /\ b # 0 => bills[b].exists
          /\ ReqStart(i, 1, b, a)
    \/ \E i \in Procs : ReqLookupBill(i)
    \/ \E i \in Procs : ReqLookupStr(i)
    \/ \E i \in Procs : ReqCustomerSave(i)
    \/ \E i \in Procs : ReqBuildBill(i)
    \/ \E i \in Procs : ReqNewBill(i)
    \/ \E i \in Procs : ReqInsert(i)
    \/ \E i \in Procs : ReqSum(i)
    \/ \E i \in Procs : ReqWrite(i)
    \/ \E i \in Procs : ReqLock(i)
    \/ \E i \in Procs : ReqBillWrite(i)
    \/ \E i \in Procs : ReqBillCustomer(i)
    \/ \E i \in Procs : ReqCommit(i)
    \/ \E i \in Procs : ReqQuery(i)
    \/ \E i \in Procs : ReqDeadlock(i)

SpecConcBill == Init /\ [][NextConcBill]_vars

\* Bills created unpaid with a total of 0 or more, and payments of positive
\* amounts, linked to a bill or not, created and deleted.
NextUnpaid ==
    \/ \E b \in BillIds, c \in Customers, d \in Dates, t \in NonNegVals :
          BillCreate(b, c, d, t, 0)
    \/ \E p \in PayIds, c \in Customers, b \in {0} \cup BillIds, a \in PositiveVals :
          PaymentCreate(p, c, b, a)
    \/ \E p \in PayIds : PaymentDelete(p)

SpecUnpaid == Init /\ [][NextUnpaid]_vars

\* The same with linked payments only.
NextLinkedLife ==
    \/ \E b \in BillIds, c \in Customers, d \in Dates, t \in NonNegVals :
          BillCreate(b, c, d, t, 0)
    \/ \E p \in PayIds, c \in Customers, b \in BillIds, a \in PositiveVals :
          PaymentCreate(p, c, b, a)
    \/ \E p \in PayIds : PaymentDelete(p)

SpecLinkedLife == Init /\ [][NextLinkedLife]_vars

\* Bills created unpaid, payments created, and payments on file saved again.
NextResave ==
    \/ \E b \in BillIds, c \in Customers, d \in Dates, t \in NonNegVals :
          BillCreate(b, c, d, t, 0)
    \/ \E p \in 1..MaxLivePayments, c \in Customers, b \in {0} \cup BillIds, a \in PositiveVals :
          PaymentCreate(p, c, b, a)
    \/ \E p \in PayIds : PaymentResave(p)

SpecResave == InitTraced /\ [][NextResave]_vars

\* The ledger in use without end: as long as some operation can be carried
\* out, one eventually is.
SpecFair == Init /\ [][Next]_vars /\ WF_vars(Next)

\* ======================================================================
\* Properties
\* ======================================================================
Exists(b) == bills[b].exists

\* C1: after every bill or payment operation, each customer's stored
\* outstanding_balance is the sum of remaining_amount over all the bills the
\* customer owns (0 without bills).
C1_BalanceIsSumOfRemaining ==
    \A c \in Customers : balance[c] = total_outstanding(bills, c)

\* C2: after every Bill.save the stored remaining_amount is
\* max(total_amount - paid_amount, 0), whatever the total and paid amounts.
C2_RemainingIsClampedDifference ==
    \A b \in BillIds :
        Exists(b) => bills[b].remaining = Max(bills[b].total - bills[b].paid, 0)

\* C3 as stated: for total >= 0 and paid >= 0, status is paid exactly when
\* paid >= total, pending exactly when paid = 0, partial in every other case.
C3_StatusAsStated ==
    \A b \in BillIds :
        (Exists(b) /\ bills[b].total >= 0 /\ bills[b].paid >= 0) =>
            /\ bills[b].status = "paid" <=> bills[b].paid >= bills[b].total
            /\ bills[b].status = "pending" <=> bills[b].paid = 0
            /\ bills[b].status = "partial" <=>
                  ~(bills[b].paid >= bills[b].total) /\ bills[b].paid # 0

\* C3 amended: for total >= 0 and paid >= 0, status is pending exactly when
\* paid = 0 (a bill with total 0 and paid 0 included), paid exactly when
\* paid # 0 and paid >= total, and partial in every other case.
C3_StatusPendingFirst ==
    \A b \in BillIds :
        (Exists(b) /\ bills[b].total >= 0 /\ bills[b].paid >= 0) =>
            /\ bills[b].status = "pending" <=> bills[b].paid = 0
            /\ bills[b].status = "paid" <=>
                  bills[b].paid # 0 /\ bills[b].paid >= bills[b].total
            /\ bills[b].status = "partial" <=>
                  bills[b].paid # 0 /\ bills[b].paid < bills[b].total

\* C3 witness: a saved bill with total 0 and paid 0 stands as pending next to
\* a saved bill whose paid amount reaches its total.
C3_Witness ==
    \E b1, b2 \in BillIds :
        /\ Exists(b1) /\ bills[b1].total = 0 /\ bills[b1].paid = 0
        /\ bills[b1].status = "pending"
        /\ Exists(b2) /\ bills[b2].total > 0 /\ bills[b2].paid >= bills[b2].total
        /\ bills[b2].status = "paid"

\* C4 as stated: a bill is paid if and only if its remaining_amount is 0 and
\* its total_amount is greater than 0.
C4_PaidAsStated ==
    \A b \in BillIds :
        Exists(b) =>
            (bills[b].status = "paid" <=> (bills[b].remaining = 0 /\ bills[b].total > 0))

\* C4 amended: a bill is paid if and only if its remaining_amount is 0 and
\* either its total_amount is greater than 0 or its paid_amount is not 0.
C4_PaidIffSettled ==
    \A b \in BillIds :
        Exists(b) =>
            (bills[b].status = "paid" <=>
                (bills[b].remaining = 0 /\ (bills[b].total > 0 \/ bills[b].paid # 0)))

\* C4 witness: a bill with a positive total was settled by a payment linked
\* to it, and a bill with total 0 carries a paid amount and stands as paid.
C4_Witness ==
    \E b1, b2 \in BillIds, p \in PayIds :
        /\ Exists(b1) /\ bills[b1].total > 0 /\ bills[b1].status = "paid"
        /\ payments[p].exists /\ payments[p].bill = b1 /\ payments[p].amount > 0
        /\ Exists(b2) /\ bills[b2].total = 0 /\ bills[b2].paid # 0
        /\ bills[b2].status = "paid"

\* ------------------------------------------------ payments: shared terms
LinkedCreate == last.op = "PaymentCreate" /\ last.bill # 0

UnlinkedCreate == last.op = "PaymentCreate" /\ last.bill = 0

LinkedDelete == last.op = "PaymentDelete" /\ last.bill # 0

\* The status and remainder a paid amount stands for.
StatusFor(total, paid) ==
    IF paid = 0 THEN "pending" ELSE IF paid >= total THEN "paid" ELSE "partial"

RemainingFor(total, paid) ==
    IF paid # 0 /\ paid >= total THEN 0 ELSE total - paid

\* C5 as stated: a payment of amount A linked to a bill with remainder R
\* leaves the bill paid with remainder 0 if A >= R, and partial with
\* remainder R - A otherwise.
C5_LinkedPaymentAsStated ==
    LinkedCreate =>
        LET b == last.bill
            R == last.bills[b].remaining
            A == last.amount
        IN IF A >= R
           THEN bills[b].status = "paid" /\ bills[b].remaining = 0
           ELSE bills[b].status = "partial" /\ bills[b].remaining = R - A

\* C5 amended: a payment of positive amount A linked to a bill with
\* remainder R and a total above 0 leaves the bill paid with remainder 0 if
\* A >= R, and partial with remainder R - A otherwise; a bill whose total is
\* 0 ends pending with remainder 0.
C5_LinkedPaymentPositiveTotal ==
    LinkedCreate =>
        LET b == last.bill
            R == last.bills[b].remaining
            A == last.amount
        IN IF last.bills[b].total = 0
           THEN bills[b].status = "pending" /\ bills[b].remaining = 0
           ELSE IF A >= R
           THEN bills[b].status = "paid" /\ bills[b].remaining = 0
           ELSE bills[b].status = "partial" /\ bills[b].remaining = R - A

\* C5 witness: a linked payment at least as large as the remainder of a
\* partial bill has just settled it.
C5_Witness ==
    /\ LinkedCreate
    /\ last.bills[last.bill].status = "partial"
    /\ last.amount >= last.bills[last.bill].remaining
    /\ bills[last.bill].status = "paid"
    /\ bills[last.bill].remaining = 0

\* ------------------------------------------------------------------- C6
LinkedPayments(b) == {p \in PayIds : payments[p].exists /\ payments[p].bill = b}

RECURSIVE SumAmounts(_)
SumAmounts(S) ==
    IF S = {} THEN 0
    ELSE LET p == CHOOSE x \in S : TRUE
         IN payments[p].amount + SumAmounts(S \ {p})

\* C6: a bill created unpaid with total T that has received linked payments
\* of positive amounts A1..An has paid_amount min(T, A1+...+An), never more
\* than T, and the status and remainder that paid amount stands for; before
\* the first payment its paid_amount is 0.
C6_PaidIsCappedSum ==
    \A b \in BillIds :
        Exists(b) =>
            /\ IF LinkedPayments(b) = {}
               THEN bills[b].paid = 0
               ELSE /\ bills[b].paid = Min(bills[b].total, SumAmounts(LinkedPayments(b)))
                    /\ bills[b].paid <= bills[b].total
            /\ bills[b].status = StatusFor(bills[b].total, bills[b].paid)
            /\ bills[b].remaining = RemainingFor(bills[b].total, bills[b].paid)

\* C6 witness: a bill of total 2 has received two linked payments of 1 and
\* stands as paid with remainder 0.
C6_Witness ==
    \E b \in BillIds, p1, p2 \in PayIds :
        /\ p1 # p2
        /\ LinkedPayments(b) = {p1, p2}
        /\ payments[p1].amount = 1 /\ payments[p2].amount = 1
        /\ bills[b].total = 2 /\ bills[b].paid = 2
        /\ bills[b].status = "paid" /\ bills[b].remaining = 0

\* -------------------------------------------------------------- C7, C8
\* The open bills of customer c before the operation, and what each bill
\* has received from it.
PreOpen(c) ==
    {b \in BillIds : /\ last.bills[b].exists
                     /\ last.bills[b].customer = c
                     /\ last.bills[b].status \in {"pending", "partial"}}

Received(b) == bills[b].paid - last.bills[b].paid

Older(c, b) == {x \in PreOpen(c) : last.bills[x].date < last.bills[b].date}

RECURSIVE SumReceived(_)
SumReceived(S) ==
    IF S = {} THEN 0
    ELSE LET b == CHOOSE x \in S : TRUE
         IN Received(b) + SumReceived(S \ {b})

RECURSIVE SumPreRemaining(_)
SumPreRemaining(S) ==
    IF S = {} THEN 0
    ELSE LET b == CHOOSE x \in S : TRUE
         IN last.bills[b].remaining + SumPreRemaining(S \ {b})

\* C7: an unlinked payment is handed to the open (pending or partial) bills
\* of its customer oldest first: each receives min(what is still left, its
\* remainder), no other bill changes, and a bill receives money only if
\* every older open bill of the customer ends with remainder 0.
C7_OldestFirstDistribution ==
    UnlinkedCreate =>
        \A b \in BillIds :
            IF b \in PreOpen(last.customer)
            THEN /\ Received(b) =
                      Min(last.amount - SumReceived(Older(last.customer, b)),
                          last.bills[b].remaining)
                 /\ Received(b) > 0 =>
                      \A x \in Older(last.customer, b) : bills[x].remaining = 0
            ELSE bills[b] = last.bills[b]

\* C7 witness: an unlinked payment has settled the older open bill, which
\* has the higher id, and part of the newer one.
C7_Witness ==
    /\ UnlinkedCreate
    /\ \E old, new \in PreOpen(last.customer) :
          /\ last.bills[old].date < last.bills[new].date
          /\ old > new
          /\ Received(old) > 0 /\ bills[old].status = "paid"
          /\ Received(new) > 0 /\ bills[new].status = "partial"

\* C8 as stated: an unlinked payment of amount A > 0, S being the total
\* remainder of the customer's open bills, raises the customer's total paid
\* amount by min(A, S) and changes no other bill; when A > S all those open
\* bills become paid and the balance becomes 0; the balance is never negative.
C8_ExcessAsStated ==
    (UnlinkedCreate /\ last.amount > 0) =>
        LET c == last.customer
            S == SumPreRemaining(PreOpen(c))
        IN /\ SumReceived(PreOpen(c)) = Min(last.amount, S)
           /\ \A b \in BillIds \ PreOpen(c) : bills[b] = last.bills[b]
           /\ last.amount > S =>
                 /\ \A b \in PreOpen(c) : bills[b].status = "paid"
                 /\ balance[c] = 0
           /\ balance[c] >= 0

\* C8 amended: as stated, except that when A > S it is the open bills with a
\* total above 0 that become paid; an open bill with total 0 receives
\* nothing and stays pending.
C8_ExcessDropped ==
    (UnlinkedCreate /\ last.amount > 0) =>
        LET c == last.customer
            S == SumPreRemaining(PreOpen(c))
        IN /\ SumReceived(PreOpen(c)) = Min(last.amount, S)
           /\ \A b \in BillIds \ PreOpen(c) : bills[b] = last.bills[b]
           /\ last.amount > S =>
                 /\ \A b \in PreOpen(c) :
                       IF last.bills[b].total > 0
                       THEN bills[b].status = "paid"
                       ELSE bills[b] = last.bills[b] /\ bills[b].status = "pending"
                 /\ balance[c] = 0
           /\ balance[c] >= 0

\* C8 witness: an unlinked payment larger than the total remainder of two
\* open bills has settled both and left the balance at 0.
C8_Witness ==
    /\ UnlinkedCreate
    /\ Cardinality(PreOpen(last.customer)) = 2
    /\ SumPreRemaining(PreOpen(last.customer)) > 0
    /\ last.amount > SumPreRemaining(PreOpen(last.customer))
    /\ \A b \in PreOpen(last.customer) : Received(b) > 0 /\ bills[b].status = "paid"
    /\ balance[last.customer] = 0

\* -------------------------------------------------------------- C9, C10
\* A linked payment has been created and deleted again, nothing in between.
CreatedThenDeleted ==
    /\ LinkedDelete
    /\ last.prev_op = "PaymentCreate"
    /\ last.prev_pay = last.pay

\* C9: creating a payment linked to a bill and deleting it again leaves the
\* bill's paid_amount as it was before the creation, for every prior
\* paid_amount in [0, total_amount] and every positive amount.
C9_CreateDeleteRestoresPaid ==
    (/\ CreatedThenDeleted
     /\ last.amount > 0
     /\ last.prev_bills[last.bill].paid >= 0
     /\ last.prev_bills[last.bill].paid <= last.prev_bills[last.bill].total) =>
        bills[last.bill].paid = last.prev_bills[last.bill].paid

\* C10: deleting a payment of amount A linked to a bill sets the bill's
\* paid_amount to max(paid_amount - A, 0), stores the remainder and status
\* that paid amount stands for, and leaves the balance of the payment's
\* customer and of the bill's customer equal to the sum of their bills'
\* remainders.
C10_DeleteRevertsBill ==
    LinkedDelete =>
        LET b == last.bill
            paid == Max(last.bills[b].paid - last.amount, 0)
        IN /\ bills[b].paid = paid
           /\ bills[b].total = last.bills[b].total
           /\ bills[b].status = StatusFor(bills[b].total, paid)
           /\ bills[b].remaining = RemainingFor(bills[b].total, paid)
           /\ \A c \in {last.customer, bills[b].customer} :
                 balance[c] = SumRemainingOver(bills, BillsOf(bills, c))

\* C10 witness: the deleted payment was larger than the bill's paid amount,
\* so the bill is back to pending with nothing paid.
C10_Witness ==
    /\ LinkedDelete
    /\ last.bills[last.bill].paid > 0
    /\ last.bills[last.bill].paid - last.amount < 0
    /\ bills[last.bill].paid = 0
    /\ bills[last.bill].status = "pending"
    /\ balance[bills[last.bill].customer] > 0

\* ------------------------------------------------------------------ C11
UnlinkedDelete == last.op = "PaymentDelete" /\ last.bill = 0

\* The open bills of customer c before the operation before the last one.
PrevOpen(c) ==
    {b \in BillIds : /\ last.prev_bills[b].exists
                     /\ last.prev_bills[b].customer = c
                     /\ last.prev_bills[b].status \in {"pending", "partial"}}

RECURSIVE SumPrevRemaining(_)
SumPrevRemaining(S) ==
    IF S = {} THEN 0
    ELSE LET b == CHOOSE x \in S : TRUE
         IN last.prev_bills[b].remaining + SumPrevRemaining(S \ {b})

RECURSIVE SumCredited(_)
SumCredited(S) ==
    IF S = {} THEN 0
    ELSE LET b == CHOOSE x \in S : TRUE
         IN (bills[b].paid - last.prev_bills[b].paid) + SumCredited(S \ {b})

\* C11: deleting a payment without a linked bill changes no bill row; when
\* the payment had just been created, what it distributed, min(amount, total
\* remainder of the customer's open bills), is still credited after the
\* deletion, and if that is more than 0 the bills differ from what they were
\* before the creation and the customer's balance is lower by that much.
C11_UnlinkedDeleteKeepsCredit ==
    UnlinkedDelete =>
        /\ bills = last.bills
        /\ (last.prev_op = "PaymentCreate" /\ last.prev_pay = last.pay) =>
              LET c == last.customer
                  given == Min(last.amount, SumPrevRemaining(PrevOpen(c)))
              IN /\ SumCredited(BillIds) = given
                 /\ given > 0 =>
                       /\ bills # last.prev_bills
                       /\ balance[c] = SumRemainingOver(last.prev_bills,
                                                        BillsOf(last.prev_bills, c)) - given

\* C11 witness: an unlinked payment that settled an open bill was deleted
\* and the bill still stands as paid, the balance at 0.
C11_Witness ==
    /\ UnlinkedDelete
    /\ last.prev_op = "PaymentCreate" /\ last.prev_pay = last.pay
    /\ \E b \in PrevOpen(last.customer) :
          /\ last.prev_bills[b].remaining > 0
          /\ bills[b].status = "paid"
          /\ bills[b].paid > last.prev_bills[b].paid
    /\ balance[last.customer] = 0

\* ------------------------------------------------------------------ C12
\* Customer.objects.aggregate(Sum('outstanding_balance')) of the dashboard.
RECURSIVE SumBalances(_, _)
SumBalances(bal, S) ==
    IF S = {} THEN 0
    ELSE LET c == CHOOSE x \in S : TRUE
         IN bal[c] + SumBalances(bal, S \ {c})

dashboard_total_outstanding(bal) == SumBalances(bal, Customers)

\* C12: in every state reached by bill and payment creations, saves and
\* deletions, the dashboard's total outstanding (the sum of
\* outstanding_balance over all customers) is the sum of remaining_amount
\* over all bills.
C12_DashboardTotalIsSumOfRemaining ==
    dashboard_total_outstanding(balance) =
        SumRemainingOver(bills, {b \in BillIds : bills[b].exists})

\* ------------------------------------------------------- C15, C16, C17
\* C15: a payment request of a positive amount struck by a failure while a
\* bill is updated or the balance recomputed ends in an error, and leaves no
\* payment row and no change to any bill or balance.
C15_FailureAbortsAll ==
    [][(/\ last'.op = "receive_payment"
        /\ last'.fail.at \notin {"none", "lookup", "insert"}
        /\ last'.amount > 0) =>
          /\ last'.resp = "error"
          /\ UNCHANGED <<bills, payments, balance>>]_vars

\* C16: a payment with a zero or negative amount is rejected: neither
\* receive_payment nor Payment.save changes a payment, bill or balance for
\* an amount that is not positive.
C16_NonPositiveRejected ==
    [][(last'.op = "receive_payment" /\ last'.fail = NoFailure /\ last'.amount <= 0) =>
          /\ last'.resp = "error"
          /\ UNCHANGED <<bills, payments, balance>>]_vars

\* C17: receive_payment with a customer id or a bill id that is in no row
\* answers with the form and an error, creates no payment and changes no
\* bill and no balance.
C17_NotFoundChangesNothing ==
    [][(/\ last'.op = "receive_payment"
        /\ \/ ~CustomerExists(phone, last'.customer)
           \/ (last'.bill # 0 /\ ~BillExists(bills, last'.bill))) =>
          /\ last'.resp = "error"
          /\ UNCHANGED <<bills, payments, balance>>]_vars

\* C17 witness: a request naming a bill that is in no row was answered with
\* an error while the customer had an open bill and a balance to pay.
C17_Witness ==
    /\ last.op = "receive_payment"
    /\ last.resp = "error"
    /\ last.fail = NoFailure
    /\ last.bill # 0 /\ ~BillExists(bills, last.bill)
    /\ CustomerExists(phone, last.customer)
    /\ balance[last.customer] > 0
    /\ \A p \in PayIds : ~payments[p].exists

\* ------------------------------------------------------------ C13, C14
BothDone == \A i \in Procs : procs[i].pc = "done"

\* C13: two requests, run at the same time or one after the other and no
\* third one with them, each creating a payment linked to the same bill,
\* with amounts A1 and A2 on a bill of total T that had paid_amount P when
\* the first of them came in, leave the bill with paid_amount
\* min(T, P + A1 + A2).
C13_LinkedPaymentsSerialised ==
    \A i, j \in Procs :
        (/\ i < j
         /\ procs[i].pc = "done" /\ procs[j].pc = "done"
         /\ \A k \in Procs \ {i, j} : procs[k].pc = "idle"
         /\ payments[procs[i].p].bill # 0
         /\ payments[procs[i].p].bill = payments[procs[j].p].bill) =>
            LET b == payments[procs[i].p].bill
            IN bills[b].paid = Min(bills[b].total,
                                   Min(procs[i].paid0, procs[j].paid0)
                                       + procs[i].a + procs[j].a)

\* C13 witness: both requests read the bill while it had nothing paid, ran
\* at the same time, and the bill of total 2 ends with both amounts of 1
\* credited.
C13_Witness ==
    \E i, j \in Procs :
        /\ i < j
        /\ procs[i].overlap /\ procs[j].overlap
        /\ procs[i].pc = "done" /\ procs[j].pc = "done"
        /\ payments[procs[i].p].bill # 0
        /\ payments[procs[i].p].bill = payments[procs[j].p].bill
        /\ procs[i].paid0 = 0 /\ procs[j].paid0 = 0
        /\ procs[i].a = 1 /\ procs[j].a = 1
        /\ bills[payments[procs[i].p].bill].total = 2
        /\ bills[payments[procs[i].p].bill].paid = 2

\* C14: two submissions for the same customer, each a payment through
\* receive_payment or a bill through save_final_bill, leave the customer's
\* stored balance equal to the sum of remaining_amount over the customer's
\* bills whenever one ran after the other had finished; submissions that run
\* at the same time can end with the two different (the witness).
C14_OnlyOverlapBreaksBalance ==
    (BothDone /\ \A i \in Procs : ~procs[i].overlap) =>
        \A c \in Customers : balance[c] = total_outstanding(bills, c)

\* C14 witness: a bill submitted through save_final_bill with an amount paid
\* and an unlinked payment submitted through receive_payment, for the same
\* customer and run at the same time, have both finished with their payment
\* on file, and the stored balance is not the sum of the remainders of the
\* customer's bills.
C14_Witness ==
    \E i, j \in Procs :
        /\ BothDone
        /\ procs[i].kind = "save_final_bill" /\ procs[i].a > 0 /\ procs[i].p # 0
        /\ procs[j].kind = "receive_payment" /\ ~Linked(j)
        /\ procs[i].overlap /\ procs[j].overlap
        /\ procs[i].c = procs[j].c
        /\ payments[procs[i].p].exists /\ payments[procs[j].p].exists
        /\ procs[i].p # procs[j].p
        /\ balance[procs[i].c] # total_outstanding(bills, procs[i].c)

\* Two receive_payment requests and no third request with them, run at the
\* same time or not: once both have finished, the stored balance is the sum
\* of the remainders of the customer's bills.  The update_balance the view
\* calls after payment.save() reads what both requests have committed.
TwoReceivePaymentsRepairBalance ==
    \A i, j \in Procs :
        (/\ i < j
         /\ procs[i].pc = "done" /\ procs[j].pc = "done"
         /\ procs[i].kind = "receive_payment" /\ procs[j].kind = "receive_payment"
         /\ \A k \in Procs \ {i, j} : procs[k].pc = "idle") =>
            \A c \in Customers : balance[c] = total_outstanding(bills, c)

\* ------------------------------------------------------------------ C18
PhonesDistinct ==
    \A c1, c2 \in Customers : (phone[c1] # 0 /\ phone[c1] = phone[c2]) => c1 = c2

NumbersDistinct ==
    \A b1, b2 \in BillIds :
        (bills[b1].exists /\ bills[b2].exists /\ number[b1] = number[b2]) => b1 = b2

\* C18: in every state the phones of the customers are pairwise distinct
\* and the numbers of the bills are pairwise distinct; creating a customer
\* under a phone some customer holds fails with an integrity error and
\* changes no row; creating a bill under a number some bill holds, directly
\* or through the bill form, fails with an integrity error, adds no bill,
\* payment or line item and changes no balance.
C18_UniqueKeys ==
    /\ [](PhonesDistinct /\ NumbersDistinct)
    /\ [][(/\ last'.op = "Customer.create"
           /\ \E c \in Customers : phone[c] = last'.key) =>
             /\ last'.resp = "IntegrityError"
             /\ UNCHANGED <<bills, payments, balance, phone, number, items>>]_vars
    /\ [][(/\ last'.op \in {"Bill.create", "save_final_bill"}
           /\ \E b \in BillIds : bills[b].exists /\ number[b] = last'.key) =>
             /\ last'.resp = "IntegrityError"
             /\ UNCHANGED <<bills, payments, balance, number, items>>]_vars

\* C18 witness: with two customers and a bill on file, the creation of a
\* bill under the number of that bill has failed and the customer still
\* owes what the one bill says.
C18_Witness ==
    /\ last.op = "Bill.create"
    /\ last.resp = "IntegrityError"
    /\ \A c \in Customers : phone[c] # 0
    /\ \E b \in BillIds :
          /\ bills[b].exists /\ number[b] = last.key
          /\ \A x \in BillIds \ {b} : ~bills[x].exists
          /\ balance[bills[b].customer] = bills[b].remaining
          /\ bills[b].remaining > 0

\* ------------------------------------------------------------------ C19
\* A submitted line all of whose fields are filled in, and whether its
\* quantity and price are numerals.
Filled(l) == l.product # "" /\ l.quantity # "" /\ l.price # ""

WellFormed(l) == l.quantity \in {"1", "2"} /\ l.price \in {"1", "2", "1.5"}

RECURSIVE WellFormedItems(_)
WellFormedItems(lines) ==
    IF lines = <<>> THEN <<>>
    ELSE IF Filled(Head(lines)) /\ WellFormed(Head(lines)) /\ Head(lines).product = "1"
    THEN <<[quantity |-> IF Head(lines).quantity = "1" THEN 1 ELSE 2,
            price |-> Head(lines).price]>> \o WellFormedItems(Tail(lines))
    ELSE WellFormedItems(Tail(lines))

RECURSIVE SumQuantity(_)
SumQuantity(its) == IF its = <<>> THEN 0 ELSE Head(its).quantity + SumQuantity(Tail(its))

\* C19: a bill form with a line item whose quantity or price is no number
\* (the bill number free and the stock sufficient) still ends in the
\* redirect, with the bill, the well-formed line items and, for a paid
\* amount above 0, the payment saved.
C19_MalformedLineSkipped ==
    [][(/\ last'.op = "save_final_bill"
        /\ \A b \in BillIds : bills[b].exists => number[b] # last'.key
        /\ \E k \in 1..Len(last'.lines) :
              Filled(last'.lines[k]) /\ ~WellFormed(last'.lines[k])
        /\ SumQuantity(WellFormedItems(last'.lines)) <= stock) =>
          /\ last'.resp = "redirect"
          /\ bills'[last'.bill].exists
          /\ items'[last'.bill] = WellFormedItems(last'.lines)
          /\ last'.amount > 0 => payments'[last'.pay].exists]_vars

\* ------------------------------------------------------------------ C20
\* C20: a bill form with total T and paid amount P that ends in the
\* redirect has created the bill and, if and only if P > 0, exactly one
\* payment, linked to that bill and of amount P; the bill's paid_amount is
\* min(T, P), or 0 when P <= 0, and the customer's balance has grown by T
\* less that paid amount.  The bill comes first: a form that fails on its
\* line items leaves the bill with paid_amount 0, pending, and no payment.
C20_FinalBillPaidOnce ==
    /\ [][(last'.op = "save_final_bill" /\ last'.resp = "redirect") =>
             LET b == last'.bill
                 c == last'.customer
                 P == last'.amount
                 T == bills'[b].total
                 paid == IF P > 0 THEN Min(T, P) ELSE 0
             IN /\ ~bills[b].exists /\ bills'[b].exists
                /\ bills'[b].customer = c
                /\ bills'[b].paid = paid
                /\ IF P > 0
                   THEN /\ ~payments[last'.pay].exists
                        /\ payments' = [payments EXCEPT ![last'.pay] =
                                           [exists |-> TRUE, customer |-> c, bill |-> b, amount |-> P]]
                   ELSE payments' = payments
                /\ balance'[c] = balance[c] + T - paid]_vars
    /\ [][(/\ last'.op = "save_final_bill"
           /\ last'.resp \in {"InvalidOperation", "IntegrityError"}
           /\ bills'[last'.bill].exists) =>
             /\ bills'[last'.bill].paid = 0
             /\ bills'[last'.bill].status = "pending"
             /\ payments' = payments]_vars

\* C20 witness: a bill of total 1 confirmed with a paid amount of 2 stands
\* as paid with paid_amount 1, its one payment of 2 linked to it, next to an
\* earlier bill of the same customer that is still owed.
C20_Witness ==
    /\ last.op = "save_final_bill"
    /\ last.resp = "redirect"
    /\ last.amount = 2
    /\ bills[last.bill].total = 1 /\ bills[last.bill].paid = 1
    /\ bills[last.bill].status = "paid"
    /\ payments[last.pay] = [exists |-> TRUE, customer |-> last.customer,
                             bill |-> last.bill, amount |-> 2]
    /\ balance[last.customer] > 0

\* ------------------------------------------------------------------ C21
\* C21 as stated: some state is reached in which the balance summed over all
\* of a customer's bills differs from the balance summed over the customer's
\* pending and partial bills, that is, in which a bill with payment_status
\* paid has a remaining_amount other than 0.
C21_PaidBillOwesSomewhere ==
    <>(\/ \E b \in BillIds :
             Exists(b) /\ bills[b].status = "paid" /\ bills[b].remaining # 0
       \/ \E c \in Customers :
             total_outstanding(bills, c) # SumRemainingOver(bills, OpenBills(bills, c)))

\* C21 amended: in every reachable state the balance summed over all of a
\* customer's bills equals the balance summed over the customer's pending
\* and partial bills: every bill with payment_status paid has
\* remaining_amount 0, an over-paid bill included.
C21_PaidBillsOweNothing ==
    /\ \A b \in BillIds :
          (Exists(b) /\ bills[b].status = "paid") => bills[b].remaining = 0
    /\ \A c \in Customers :
          total_outstanding(bills, c) = SumRemainingOver(bills, OpenBills(bills, c))

\* C21 witness: a customer owns an over-paid bill, which stands as paid
\* with remaining_amount 0 and not total - paid, next to an open bill with a
\* remainder, and both sums give that remainder.
C21_Witness ==
    \E b1, b2 \in BillIds :
        /\ Exists(b1) /\ Exists(b2) /\ bills[b1].customer = bills[b2].customer
        /\ bills[b1].status = "paid" /\ bills[b1].paid > bills[b1].total
        /\ bills[b1].remaining = 0
        /\ bills[b2].status \in {"pending", "partial"} /\ bills[b2].remaining > 0
        /\ total_outstanding(bills, bills[b1].customer) = bills[b2].remaining
        /\ SumRemainingOver(bills, OpenBills(bills, bills[b1].customer)) = bills[b2].remaining

\* ------------------------------------------------------------------ C22
\* C22: every Bill.save writes the bill row, with remaining_amount and
\* payment_status derived again from its total and paid amounts, before the
\* balance of the bill's customer is recomputed: when the save returns, the
\* stored balance of that customer is the sum of remaining_amount over the
\* customer's bills, the saved bill counted with its new remaining_amount.
C22_BillRowWrittenBeforeBalance ==
    [][\A b \in BillIds :
          (bills'[b].exists /\ bills'[b] # bills[b]) =>
             /\ bills'[b].remaining = RemainingFor(bills'[b].total, bills'[b].paid)
             /\ bills'[b].status = StatusFor(bills'[b].total, bills'[b].paid)
             /\ balance'[bills'[b].customer] =
                   SumRemainingOver(bills', BillsOf(bills', bills'[b].customer))]_vars

\* C22 witness: a customer owns a partial bill and an over-paid one, both
\* saved, and the stored balance is the remainder of the partial bill.
C22_Witness ==
    \E b1, b2 \in BillIds :
        /\ Exists(b1) /\ Exists(b2) /\ bills[b1].customer = bills[b2].customer
        /\ bills[b1].total = 2 /\ bills[b1].paid = 1
        /\ bills[b1].status = "partial" /\ bills[b1].remaining = 1
        /\ bills[b2].paid > bills[b2].total /\ bills[b2].remaining = 0
        /\ balance[bills[b1].customer] = 1

\* ------------------------------------------------------------------ C23
\* C23: with every bill created unpaid and with a total of 0 or more, and
\* every payment amount positive, after any sequence of creations of linked
\* and unlinked payments and of payment deletions every bill has
\* 0 <= paid_amount <= total_amount and 0 <= remaining_amount <= total_amount.
C23_AmountsWithinTotal ==
    \A b \in BillIds :
        Exists(b) =>
            /\ 0 <= bills[b].paid /\ bills[b].paid <= bills[b].total
            /\ 0 <= bills[b].remaining /\ bills[b].remaining <= bills[b].total

\* C23 witness: a bill of total 1 is back at paid_amount 0 while a payment
\* of 1 linked to it is on file (a larger payment linked to it was deleted
\* and the subtraction was floored), and an unlinked payment is on file next
\* to a bill it settled.
C23_Witness ==
    \E b1, b2 \in BillIds, p1, p2 \in PayIds :
        /\ Exists(b1) /\ bills[b1].total = 1 /\ bills[b1].paid = 0
        /\ bills[b1].status = "pending" /\ bills[b1].remaining = 1
        /\ payments[p1].exists /\ payments[p1].bill = b1 /\ payments[p1].amount = 1
        /\ Exists(b2) /\ bills[b2].total = 2 /\ bills[b2].paid = 2
        /\ payments[p2].exists /\ payments[p2].bill = 0
        /\ payments[p2].customer = bills[b2].customer /\ payments[p2].amount = 3

\* ------------------------------------------------------------------ C24
\* C24: a bill created unpaid and touched only by creations and deletions
\* of payments linked to it has, in every state, paid_amount equal to
\* min(total_amount, sum of the amounts of the linked payments on file).
C24_PaidIsCappedSumOfLive ==
    \A b \in BillIds :
        Exists(b) =>
            bills[b].paid = Min(bills[b].total, SumAmounts(LinkedPayments(b)))

\* ------------------------------------------------------------------ C25
Resave == last.op = "PaymentResave"

\* C25: the payment is applied at every save, not once: saving a payment
\* that is on file again adds its amount to the linked bill once more
\* (capped at the total), or, without a linked bill, hands it out over the
\* customer's open bills once more, oldest first.
C25_ResaveAppliesAgain ==
    Resave =>
        IF last.bill # 0
        THEN \A b \in BillIds :
                IF b = last.bill
                THEN bills[b].paid = Min(last.bills[b].total, last.bills[b].paid + last.amount)
                ELSE bills[b] = last.bills[b]
        ELSE \A b \in BillIds :
                IF b \in PreOpen(last.customer)
                THEN Received(b) =
                        Min(last.amount - SumReceived(Older(last.customer, b)),
                            last.bills[b].remaining)
                ELSE bills[b] = last.bills[b]

\* C25 witness: the one payment on file, of 1 and linked to a bill of total
\* 2, was created and then saved again, and the bill stands as paid with
\* paid_amount 2.
C25_Witness ==
    /\ Resave
    /\ last.prev_op = "PaymentCreate" /\ last.prev_pay = last.pay
    /\ last.bill # 0 /\ last.amount = 1
    /\ last.prev_bills[last.bill].paid = 0
    /\ last.bills[last.bill].paid = 1
    /\ bills[last.bill].total = 2 /\ bills[last.bill].paid = 2
    /\ bills[last.bill].status = "paid"
    /\ \A p \in PayIds \ {last.pay} : ~payments[p].exists

\* C25 witness, second case: an unlinked payment saved again has handed its
\* amount out a second time.
C25_WitnessUnlinked ==
    /\ Resave
    /\ last.prev_op = "PaymentCreate" /\ last.prev_pay = last.pay
    /\ last.bill = 0
    /\ \E b \in PreOpen(last.customer) :
          /\ last.prev_bills[b].exists
          /\ last.bills[b].paid > last.prev_bills[b].paid
          /\ bills[b].paid > last.bills[b].paid

\* ------------------------------------------------------------------ C26
\* C26: every bill whose paid_amount is changed by the creation of a payment
\* is a bill of the payment's customer: a payment received for one customer
\* never lowers the remaining_amount of a bill of another customer.
C26_PaymentStaysWithCustomer ==
    [][(last'.op = "receive_payment" /\ last'.fail = NoFailure /\ last'.amount > 0) =>
          \A b \in BillIds :
              (bills[b].exists /\ (\/ bills'[b].paid # bills[b].paid
                                   \/ bills'[b].remaining # bills[b].remaining)) =>
                  bills[b].customer = last'.customer]_vars

\* ------------------------------------------------------------------ C27
\* C27: the creation of a payment linked to a bill changes that bill only:
\* its paid_amount becomes min(total_amount, paid_amount + amount), what the
\* amount has above the remainder is dropped, and every other bill keeps its
\* paid_amount, remaining_amount and payment_status.
C27_LinkedPaymentChangesOneBill ==
    LinkedCreate =>
        \A b \in BillIds :
            IF b = last.bill
            THEN /\ bills[b].paid = Min(last.bills[b].total, last.bills[b].paid + last.amount)
                 /\ bills[b].total = last.bills[b].total
                 /\ bills[b].customer = last.bills[b].customer
            ELSE bills[b] = last.bills[b]

\* C27 witness: a linked payment larger than the remainder of its bill has
\* settled it, and another open bill of the same customer still has the
\* remainder it had.
C27_Witness ==
    /\ LinkedCreate
    /\ last.bills[last.bill].remaining > 0
    /\ last.amount > last.bills[last.bill].remaining
    /\ bills[last.bill].status = "paid"
    /\ \E x \in BillIds \ {last.bill} :
          /\ Exists(x)
          /\ bills[x].customer = bills[last.bill].customer
          /\ bills[x].customer = last.customer
          /\ bills[x].status \in {"pending", "partial"}
          /\ bills[x].remaining > 0
          /\ bills[x] = last.bills[x]

\* ------------------------------------------------------------------ C28
Rank(status) == IF status = "pending" THEN 0 ELSE IF status = "partial" THEN 1 ELSE 2

\* C28 as stated: the creation of a payment of positive amount moves no
\* bill's payment_status backwards along pending, partial, paid (a paid
\* bill stays paid, a partial bill does not return to pending) and raises
\* no customer's outstanding_balance.
C28_StatusForwardAsStated ==
    [][(last'.op = "PaymentCreate" /\ last'.amount > 0) =>
          /\ \A b \in BillIds :
                bills[b].exists => Rank(bills'[b].status) >= Rank(bills[b].status)
          /\ \A c \in Customers : balance'[c] <= balance[c]]_vars

\* C28 amended: the creation of a payment of positive amount moves no bill
\* with a total_amount above 0 backwards along pending, partial, paid and
\* raises no customer's outstanding_balance; a bill with total_amount 0 is
\* left as it is or ends pending (one that carried a paid amount and stood
\* as paid has it capped to 0 by a payment linked to it).
C28_StatusForwardPositiveTotal ==
    [][(last'.op = "PaymentCreate" /\ last'.amount > 0) =>
          /\ \A b \in BillIds :
                bills[b].exists =>
                    IF bills[b].total > 0
                    THEN Rank(bills'[b].status) >= Rank(bills[b].status)
                    ELSE bills'[b] = bills[b] \/ bills'[b].status = "pending"
          /\ \A c \in Customers : balance'[c] <= balance[c]]_vars

\* C28 witness: one unlinked payment has moved a partial bill to paid and a
\* pending bill to partial, and the customer's balance is below what the
\* bills added up to before.
C28_Witness ==
    /\ UnlinkedCreate
    /\ \E b1, b2 \in PreOpen(last.customer) :
          /\ last.bills[b1].status = "partial" /\ bills[b1].status = "paid"
          /\ last.bills[b2].status = "pending" /\ bills[b2].status = "partial"
    /\ balance[last.customer] <
          SumRemainingOver(last.bills, BillsOf(last.bills, last.customer))

\* ------------------------------------------------------------------ C29
RECURSIVE SumPaidOver(_, _)
SumPaidOver(bl, S) ==
    IF S = {} THEN 0
    ELSE LET b == CHOOSE x \in S : TRUE
         IN bl[b].paid + SumPaidOver(bl, S \ {b})

RECURSIVE SumTotalOver(_, _)
SumTotalOver(bl, S) ==
    IF S = {} THEN 0
    ELSE LET b == CHOOSE x \in S : TRUE
         IN bl[b].total + SumTotalOver(bl, S \ {b})

RECURSIVE SumRequested(_)
SumRequested(S) ==
    IF S = {} THEN 0
    ELSE LET i == CHOOSE x \in S : TRUE
         IN procs[i].a + SumRequested(S \ {i})

\* C29: two unlinked payments for one customer that are distributed at the
\* same time can both read the same open bill before either writes it, and
\* the bill then carries only one of the two amounts (the witness); the
\* distribution takes no row lock.  Run one after the other, the requests
\* lose nothing: the customer's bills carry at least
\* min(sum of their totals, sum of the amounts) as paid.
C29_OnlyOverlapLosesPayment ==
    (BothDone /\ \A i \in Procs : ~procs[i].overlap /\ ~Linked(i)) =>
        SumPaidOver(bills, BillsOf(bills, 1)) >=
            Min(SumTotalOver(bills, BillsOf(bills, 1)), SumRequested(Procs))

\* C29 witness: two unlinked payments of 1 each, for the same customer and
\* run at the same time, are both on file, and the customer's one bill, of
\* total 2, carries a paid_amount of 1.
C29_Witness ==
    \E i, j \in Procs, b \in BillIds :
        /\ i < j
        /\ procs[i].pc = "done" /\ procs[j].pc = "done"
        /\ procs[i].overlap /\ procs[j].overlap
        /\ ~Linked(i) /\ ~Linked(j)
        /\ procs[i].c = procs[j].c
        /\ procs[i].a = 1 /\ procs[j].a = 1
        /\ payments[procs[i].p].exists /\ payments[procs[j].p].exists
        /\ procs[i].p # procs[j].p
        /\ BillsOf(bills, procs[i].c) = {b}
        /\ bills[b].total = 2 /\ bills[b].paid = 1
        /\ bills[b].status = "partial" /\ bills[b].remaining = 1

\* ------------------------------------------------------------------ C30
RECURSIVE SumItemsOver(_, _)
SumItemsOver(its, S) ==
    IF S = {} THEN 0
    ELSE LET b == CHOOSE x \in S : TRUE
         IN SumQuantity(its[b]) + SumItemsOver(its, S \ {b})

\* C30: when save_final_bill completes (the redirect), the product's
\* current_stock is lower by exactly the sum of the quantities of the line
\* items saved for the bill, which are the well-formed lines submitted: a
\* line that is passed over leaves the stock as it is; and current_stock is
\* never below 0.
C30_StockFollowsItems ==
    /\ [](stock >= 0)
    /\ [][(last'.op = "save_final_bill" /\ last'.resp = "redirect") =>
             /\ items'[last'.bill] = WellFormedItems(last'.lines)
             /\ \A b \in BillIds \ {last'.bill} : items'[b] = items[b]
             /\ stock' = stock - SumQuantity(items'[last'.bill])]_vars

\* C30 witness: a form with a well-formed line and a line that was passed
\* over has completed, one line item is saved for its bill, and the stock,
\* lowered by the items of this bill and of the one before, is at 0.
C30_Witness ==
    /\ last.op = "save_final_bill"
    /\ last.resp = "redirect"
    /\ Len(last.lines) = 2
    /\ \E k \in 1..2 : Filled(last.lines[k]) /\ ~WellFormed(last.lines[k])
    /\ Len(items[last.bill]) = 1
    /\ \E b \in BillIds \ {last.bill} : Len(items[b]) = 1
    /\ stock = 0
    /\ stock = InitialStock - SumItemsOver(items, BillIds)

====
